---- MODULE Spec2Model ----
(***************************************************************************)
(* Shell-environment resolution and executable discovery of               *)
(* tronfor-studio: src/main/utils/shell-env.ts (src/unnamed/part_002) and  *)
(* src/main/utils/process.ts.                                              *)
(*                                                                         *)
(* A JavaScript string that the code splits on the PATH separator is       *)
(* modelled as the non-empty sequence of its separator-free pieces:        *)
(* '' is <<"">>, '/a:/b' is <<"/a", "/b">>.  split is then the identity    *)
(* and join maps the empty list to <<"">>.                                 *)
(* An environment map is the sequence of its [k, v] entries in insertion   *)
(* order (the order Object.keys and for-in enumerate).                     *)
(***************************************************************************)
EXTENDS Integers, Sequences, FiniteSets, TLC

VARIABLES
  isWin,        \* @main/constant isWin, fixed for the run
  processEnv,   \* process.env of the host process
  osHomedir,    \* what os.homedir() yields: a directory, "" or Throws
  cachedEnv,    \* shell-env.ts: let cachedEnv
  calls,        \* the asynchronous calls into the cache, by call id
  probes,       \* the platform probes started so far, by probe id
  callCount,    \* number of calls made so far
  lastCaller,   \* the function that made the latest call into the cache
  probeCount,   \* number of platform probes started
  spawnCount    \* number of child_process.spawn calls made by the probes

cacheVars == <<isWin, processEnv, osHomedir, cachedEnv, calls, probes,
               callCount, lastCaller, probeCount, spawnCount>>

----------------------------------------------------------------------------
(* Bounds *)

MaxCalls == 3

CallIds == 1..MaxCalls

----------------------------------------------------------------------------
(* Values *)

NoEnv == [id |-> 0, src |-> "none", vars |-> <<>>]
Throws == "<throws>"
Null == <<>>

Str(s) == <<s>>
Truthy(v) == v # Null /\ v # <<"">>

Entry(key, val) == [k |-> key, v |-> val]

HasKey(env, key) == \E i \in 1..Len(env) : env[i].k = key

\* env[key], with undefined rendered as Null
Get(env, key) ==
  IF HasKey(env, key)
    THEN env[CHOOSE i \in 1..Len(env) : env[i].k = key].v
    ELSE Null

\* env[key] = val: overwrite in place, or insert last
Put(env, key, val) ==
  IF HasKey(env, key)
    THEN [i \in 1..Len(env) |-> IF env[i].k = key THEN Entry(key, val) ELSE env[i]]
    ELSE Append(env, Entry(key, val))

\* key.toLowerCase() === 'path'
IsPathKey(key) == key \in {"PATH", "Path", "path"}

\* Object.keys(env).filter((key) => key.toLowerCase() === 'path')
PathKeys(env) == SelectSeq([i \in 1..Len(env) |-> env[i].k], IsPathKey)

RECURSIVE PutAll(_, _, _)
PutAll(env, keys, val) ==
  IF keys = <<>> THEN env ELSE PutAll(Put(env, Head(keys), val), Tail(keys), val)

\* a || b || ... over values, undefined/'' being falsy
RECURSIVE FirstTruthy(_, _)
FirstTruthy(vals, dflt) ==
  IF vals = <<>> THEN dflt
  ELSE IF Truthy(Head(vals)) THEN Head(vals)
  ELSE FirstTruthy(Tail(vals), dflt)

\* Array.prototype.join over pieces
Join(segs) == IF segs = <<>> THEN <<"">> ELSE segs

----------------------------------------------------------------------------
(* appendCherryBinToPath *)

\* String.prototype.trim on the path pieces of the model
Trim(seg) ==
  CASE seg = " /opt/bin" -> "/opt/bin"
    [] seg = " /home/u/.cherrystudio/bin" -> "/home/u/.cherrystudio/bin"
    [] seg = " " -> ""
    [] OTHER -> seg

\* path.normalize, then toLowerCase on Windows (normaliseSegment).
\* path.normalize collapses repeated separators and keeps a trailing one.
normaliseSegment(seg, win) ==
  IF win
    THEN CASE seg = "C:\\Windows" -> "c:\\windows"
           [] seg = "C:\\WINDOWS" -> "c:\\windows"
           [] seg = "C:\\NodeJS" -> "c:\\nodejs"
           [] seg = "C:\\Users\\u\\.cherrystudio\\bin" -> "c:\\users\\u\\.cherrystudio\\bin"
           [] seg = "C:\\USERS\\U\\.cherrystudio\\bin" -> "c:\\users\\u\\.cherrystudio\\bin"
           [] seg = "C:\\Users\\u\\.cherrystudio\\bin\\" -> "c:\\users\\u\\.cherrystudio\\bin\\"
           [] OTHER -> seg
    ELSE CASE seg = "/usr//bin" -> "/usr/bin"
           [] OTHER -> seg

\* path.join(homeDirFromEnv, '.cherrystudio', 'bin')
CherryBinOf(home, win) ==
  CASE home = "" -> IF win THEN ".cherrystudio\\bin" ELSE ".cherrystudio/bin"
    [] home = "/home/u" -> "/home/u/.cherrystudio/bin"
    [] home = " /home/u" -> " /home/u/.cherrystudio/bin"
    [] home = "C:\\Users\\u" -> "C:\\Users\\u\\.cherrystudio\\bin"
    [] OTHER -> home

HomeCandidates(env) ==
  <<Get(env, "HOME"), Get(env, "Home"), Get(env, "USERPROFILE"), Get(env, "UserProfile")>>

\* env.HOME || env.Home || env.USERPROFILE || env.UserProfile || os.homedir()
\* os.homedir() is only evaluated when every candidate is falsy; it returns
\* $HOME when set (even empty), else the account's directory, and throws a
\* SystemError when the account has none.
HomeDirFrom(env, homedir) == FirstTruthy(HomeCandidates(env), Str(homedir))

HomeDirThrows(env, homedir) ==
  FirstTruthy(HomeCandidates(env), Null) = Null /\ homedir = Throws

pushUniqueFirst(acc, segment, win) ==
  IF segment = "" THEN acc ELSE <<segment>> \o acc

pushIfUnique(acc, segment, win) ==
  IF segment = "" THEN acc
  ELSE IF \E i \in 1..Len(acc) :
            normaliseSegment(acc[i], win) = normaliseSegment(segment, win)
    THEN acc
    ELSE Append(acc, segment)

RECURSIVE UniqueSegments(_, _, _)
UniqueSegments(segs, acc, win) ==
  IF segs = <<>> THEN acc
  ELSE UniqueSegments(Tail(segs), pushIfUnique(acc, Trim(Head(segs)), win), win)

LeavesPathAlone(env, win, homedir) == env

appendCherryBinToPath(env, win, homedir) ==
  LET cherryBinPath == CherryBinOf(HomeDirFrom(env, homedir)[1], win)
      pathKeys == PathKeys(env)
      canonicalPathKey == IF pathKeys # <<>> THEN pathKeys[1]
                          ELSE IF win THEN "Path" ELSE "PATH"
      existingPathValue ==
        FirstTruthy(<<Get(env, canonicalPathKey), Get(env, "PATH")>>, <<"">>)
      updatedPath ==
        Join(pushIfUnique(UniqueSegments(existingPathValue, <<>>, win),
                          cherryBinPath, win))
      withKeys == IF pathKeys # <<>>
                    THEN PutAll(env, pathKeys, updatedPath)
                    ELSE Put(env, canonicalPathKey, updatedPath)
  IN IF win THEN withKeys ELSE Put(withKeys, "PATH", updatedPath)

----------------------------------------------------------------------------
(* Windows: the registry PATH *)

\* k.toLowerCase() of the variable names of the model
LowerName(name) ==
  CASE name = "SystemRoot" -> "systemroot"
    [] name = "SYSTEMROOT" -> "systemroot"
    [] OTHER -> name

\* the VAR of a piece that is one whole %VAR% token, "" for any other piece
TokenVar(piece) ==
  CASE piece = "%SystemRoot%" -> "SystemRoot"
    [] piece = "%systemroot%" -> "systemroot"
    [] piece = "%UNKNOWN%" -> "UNKNOWN"
    [] OTHER -> ""

FindKeyExactCase(env, varName) == IF HasKey(env, varName) THEN varName ELSE ""

\* Object.keys(env).find((k) => k.toLowerCase() === varName.toLowerCase())
FindKeyNoCase(env, varName) ==
  LET hits == SelectSeq([i \in 1..Len(env) |-> env[i].k],
                        LAMBDA k : LowerName(k) = LowerName(varName))
  IN IF hits = <<>> THEN "" ELSE hits[1]

\* value.replace(/%([^%]+)%/g, ...): a matched token becomes the variable's
\* value (whose own separators split it further), any other token stays
RECURSIVE expandWindowsEnvVars(_, _)
expandWindowsEnvVars(value, env) ==
  IF value = <<>> THEN <<>>
  ELSE LET piece == Head(value)
           key == IF TokenVar(piece) = "" THEN "" ELSE FindKeyNoCase(env, TokenVar(piece))
       IN (IF key = "" THEN <<piece>> ELSE Get(env, key))
            \o expandWindowsEnvVars(Tail(value), env)

UserPathFirst(systemPath, userPath, env) ==
  expandWindowsEnvVars((IF Truthy(userPath) THEN userPath ELSE <<>>)
                         \o (IF Truthy(systemPath) THEN systemPath ELSE <<>>), env)

\* [systemPath, userPath].filter(Boolean).join(';'), expanded; Null when both
\* reads failed (queryRegValue returns null on any failure of reg query)
readWindowsRegistryPath(systemPath, userPath, env) ==
  IF ~Truthy(systemPath) /\ ~Truthy(userPath) THEN Null
  ELSE expandWindowsEnvVars(
         (IF Truthy(systemPath) THEN systemPath ELSE <<>>)
           \o (IF Truthy(userPath) THEN userPath ELSE <<>>), env)

KeepsInheritedPath(penv, reg) == penv

\* the copy of process.env with PATH replaced by the registry value; the
\* final appendCherryBinToPath is applied by the caller of this operator
WindowsEnvBeforeAppend(penv, reg) ==
  LET registryPath == readWindowsRegistryPath(reg.sys, reg.usr, penv)
      pathKeys == PathKeys(penv)
  IN IF Truthy(registryPath)
       THEN IF pathKeys = <<>> THEN Put(penv, "Path", registryPath)
            ELSE PutAll(penv, pathKeys, registryPath)
       ELSE penv

----------------------------------------------------------------------------
(* The host and the outside world *)

PosixHosts ==
  { [env |-> <<Entry("HOME", Str("/home/u")), Entry("PATH", <<"/usr/bin">>)>>,
     homedir |-> "/home/u"],
    [env |-> <<Entry("PATH", <<"/usr/bin", " /opt/bin", "/usr//bin">>)>>,
     homedir |-> "/home/u"],
    [env |-> <<Entry("HOME", Str("")), Entry("PATH", <<"/usr/bin">>)>>,
     homedir |-> ""],
    [env |-> <<Entry("PATH", <<"/usr/bin">>)>>,
     homedir |-> Throws] }

WinHosts ==
  { [env |-> <<Entry("SystemRoot", Str("C:\\Windows")),
               Entry("USERPROFILE", Str("C:\\Users\\u")),
               Entry("Path", <<"C:\\StaleOldPath">>)>>,
     homedir |-> "C:\\Users\\u"],
    [env |-> <<Entry("Path", <<"C:\\StaleOldPath">>)>>,
     homedir |-> Throws] }

Hosts(win) == IF win THEN WinHosts ELSE PosixHosts

\* what `<shell> -ilc env` prints, already parsed into entries
ShellOutputs ==
  { <<Entry("PATH", <<"/usr/bin">>), Entry("HOME", Str("/home/u"))>>,
    <<Entry("PATH", <<"/usr/bin", "/opt/bin">>), Entry("HOME", Str("/home/u"))>>,
    <<Entry("PATH", <<"/usr/bin", "/usr/bin">>), Entry("HOME", Str("/home/u"))>> }

\* what the two `reg query ... /v Path` calls answer (Null: the read failed)
RegistryOutputs ==
  { [sys |-> <<"C:\\Windows">>, usr |-> Null],
    [sys |-> <<"C:\\Windows">>, usr |-> <<"C:\\NodeJS">>],
    [sys |-> <<"%SystemRoot%", "C:\\Windows">>, usr |-> Null],
    [sys |-> Null, usr |-> Null] }

NoOutput == <<>>

----------------------------------------------------------------------------
(* The environment cache: getShellEnv, refreshShellEnv, fetchShellEnv *)

Env(n, source, entries) == [id |-> n, src |-> source, vars |-> entries]

IdleCall == [op |-> "none", pc |-> "idle", probe |-> 0, result |-> NoEnv,
             pre |-> NoEnv, early |-> FALSE]
NoProbe == [status |-> "none", owner |-> 0, out |-> NoOutput, env |-> NoEnv]

\* getWindowsEnvironment(): synchronous, so the probe is settled when it returns
getWindowsEnvironment(p, c, reg) ==
  IF HomeDirThrows(WindowsEnvBeforeAppend(processEnv, reg), osHomedir)
    THEN [status |-> "rejected", owner |-> c, out |-> reg, env |-> NoEnv]
    ELSE [status |-> "resolved", owner |-> c, out |-> reg,
          env |-> Env(p, "registry",
                      appendCherryBinToPath(WindowsEnvBeforeAppend(processEnv, reg),
                                            TRUE, osHomedir))]

SpawnsOnEveryPlatform(p, c, reg) ==
  [status |-> "running", owner |-> c, out |-> NoOutput, env |-> NoEnv]

\* getLoginShellEnvironment(): on Windows the registry read; on POSIX the
\* home directory is determined first (a throw of os.homedir() inside the
\* promise executor, or a falsy directory, rejects at once) and only then is
\* the login shell spawned
getLoginShellEnvironment(p, c, reg) ==
  IF isWin THEN getWindowsEnvironment(p, c, reg)
  ELSE IF HomeDirThrows(processEnv, osHomedir) \/ ~Truthy(HomeDirFrom(processEnv, osHomedir))
    THEN [status |-> "rejected", owner |-> c, out |-> NoOutput, env |-> NoEnv]
    ELSE [status |-> "running", owner |-> c, out |-> NoOutput, env |-> NoEnv]

\* the catch block of fetchShellEnv: a copy of process.env with the bin
\* directory appended; appendCherryBinToPath is outside any try
FallbackThrows == HomeDirThrows(processEnv, osHomedir)
FallbackEnv(p) == Env(p, "fallback", appendCherryBinToPath(processEnv, isWin, osHomedir))

FetchIntoCachedMap(p, probe) ==
  LET fetched == IF probe.status = "resolved" THEN probe.env ELSE FallbackEnv(p)
  IN IF cachedEnv = NoEnv THEN fetched ELSE [cachedEnv EXCEPT !.vars = fetched.vars]

\* try { return await getLoginShellEnvironment() } catch { ...fallback... }
fetchShellEnvRejects(probe) == probe.status = "rejected" /\ FallbackThrows
fetchShellEnv(p, probe) == IF probe.status = "resolved" THEN probe.env ELSE FallbackEnv(p)

\* if (!cachedEnv)
CacheMissAlways == TRUE
CacheMiss == cachedEnv = NoEnv

\* refreshShellEnv never consults the cache before it probes
RefreshUsesCache == cachedEnv # NoEnv
RefreshSkipsProbe == FALSE

FirstProbeSettled == probeCount > 0 /\ probes[1].status # "running"

\* the registry answers read by a probe started now (Windows only)
RegistryNow == IF isWin THEN RegistryOutputs ELSE {NoOutput}

StartProbe(c, kind) ==
  \E reg \in RegistryNow :
    LET p == probeCount + 1
        pr == getLoginShellEnvironment(p, c, reg)
    IN /\ probeCount' = p
       /\ probes' = [probes EXCEPT ![p] = pr]
       /\ spawnCount' = IF pr.status = "running" THEN spawnCount + 1 ELSE spawnCount
       /\ calls' = [calls EXCEPT ![c] =
                      [op |-> kind, pc |-> "awaiting", probe |-> p, result |-> NoEnv,
                       pre |-> cachedEnv,
                       early |-> cachedEnv = NoEnv /\ ~FirstProbeSettled]]
       /\ UNCHANGED <<cachedEnv>>

\* getShellEnv(), up to its await; caller names who awaits it: a direct
\* caller, findExecutableInEnv (process.ts:385) or executeCommand without
\* options.env (process.ts:442)
GetShellEnv(c, caller) ==
  /\ c = callCount + 1
  /\ callCount' = c
  /\ lastCaller' = caller
  /\ IF CacheMiss
       THEN StartProbe(c, "get")
       ELSE /\ calls' = [calls EXCEPT ![c] =
                           [op |-> "get", pc |-> "done", probe |-> 0,
                            result |-> cachedEnv, pre |-> cachedEnv, early |-> FALSE]]
            /\ UNCHANGED <<cachedEnv, probes, probeCount, spawnCount>>
  /\ UNCHANGED <<isWin, processEnv, osHomedir>>

\* refreshShellEnv(), up to its await
RefreshShellEnv(c) ==
  /\ c = callCount + 1
  /\ callCount' = c
  /\ lastCaller' = "refreshShellEnv"
  /\ IF RefreshSkipsProbe
       THEN /\ calls' = [calls EXCEPT ![c] =
                           [op |-> "refresh", pc |-> "done", probe |-> 0,
                            result |-> cachedEnv, pre |-> cachedEnv, early |-> FALSE]]
            /\ UNCHANGED <<cachedEnv, probes, probeCount, spawnCount>>
       ELSE StartProbe(c, "refresh")
  /\ UNCHANGED <<isWin, processEnv, osHomedir>>

\* the continuation after the await: cachedEnv = <fetched>; return cachedEnv
Continue(c, probe) ==
  IF fetchShellEnvRejects(probe)
    THEN /\ calls' = [calls EXCEPT ![c].pc = "rejected"]
         /\ UNCHANGED cachedEnv
    ELSE /\ cachedEnv' = fetchShellEnv(calls[c].probe, probe)
         /\ calls' = [calls EXCEPT ![c].pc = "done",
                                   ![c].result = fetchShellEnv(calls[c].probe, probe)]

\* a call whose probe settled synchronously resumes in a later microtask
Resume(c) ==
  /\ calls[c].pc = "awaiting"
  /\ probes[calls[c].probe].status \in {"resolved", "rejected"}
  /\ Continue(c, probes[calls[c].probe])
  /\ UNCHANGED <<isWin, processEnv, osHomedir, probes, callCount, lastCaller, probeCount,
                 spawnCount>>

\* the login shell closes with exit code 0 having printed out: the 'close'
\* handler parses it, appends the bin directory and resolves; the awaiting
\* call's continuation runs in the same turn of the event loop
ChildCloses(p, out) ==
  /\ p \in 1..probeCount
  /\ probes[p].status = "running"
  /\ LET pr == [probes[p] EXCEPT !.status = "resolved", !.out = out,
                  !.env = Env(p, "shell", appendCherryBinToPath(out, FALSE, osHomedir))]
     IN /\ probes' = [probes EXCEPT ![p] = pr]
        /\ Continue(probes[p].owner, pr)
  /\ UNCHANGED <<isWin, processEnv, osHomedir, callCount, lastCaller, probeCount,
                 spawnCount>>

\* a non-zero exit code, child.on('error') or the SHELL_ENV_TIMEOUT_MS timer:
\* rejectOnce
ChildFails(p) ==
  /\ p \in 1..probeCount
  /\ probes[p].status = "running"
  /\ probes' = [probes EXCEPT ![p].status = "rejected"]
  /\ Continue(probes[p].owner, [probes[p] EXCEPT !.status = "rejected"])
  /\ UNCHANGED <<isWin, processEnv, osHomedir, callCount, lastCaller, probeCount,
                 spawnCount>>

CacheInit ==
  /\ isWin \in BOOLEAN
  /\ \E h \in Hosts(isWin) : processEnv = h.env /\ osHomedir = h.homedir
  /\ cachedEnv = NoEnv
  /\ calls = [c \in CallIds |-> IdleCall]
  /\ probes = [p \in CallIds |-> NoProbe]
  /\ callCount = 0
  /\ lastCaller = "none"
  /\ probeCount = 0
  /\ spawnCount = 0

----------------------------------------------------------------------------
(* Claims about the environment cache *)

\* the value of the first PATH-like key of a map
PathOf(env) == Get(env.vars, PathKeys(env.vars)[1])

EarlyGets == {c \in CallIds : calls[c].op = "get" /\ calls[c].early}

\* C1: getShellEnv calls made while the cache is empty and before the first
\* probe has settled start exactly one probe between them and all resolve to
\* the same map.
C1_ConcurrentGetsCoalesce ==
  Cardinality(EarlyGets) >= 2 =>
    /\ Cardinality({calls[c].probe : c \in EarlyGets}) = 1
    /\ \A c, d \in EarlyGets :
         calls[c].pc = "done" /\ calls[d].pc = "done" => calls[c].result = calls[d].result

\* the entries of a map that are not PATH-like
NonPathEntries(entries) == SelectSeq(entries, LAMBDA e : ~IsPathKey(e.k))

InSeq(x, seq) == \E i \in 1..Len(seq) : seq[i] = x

\* C2: getShellEnv and refreshShellEnv never reject; when the platform probe
\* fails the call resolves to a copy of process.env whose PATH has
\* <home>/.cherrystudio/bin appended.
C2_NeverRejectsFallsBack ==
  \A c \in CallIds :
    /\ calls[c].pc # "rejected"
    /\ (calls[c].probe # 0 /\ probes[calls[c].probe].status = "rejected") =>
         /\ calls[c].pc = "done"
         /\ NonPathEntries(calls[c].result.vars) = NonPathEntries(processEnv)
         /\ InSeq(CherryBinOf(HomeDirFrom(processEnv, osHomedir)[1], isWin),
                  PathOf(calls[c].result))

\* C3: a probe is started only by refreshShellEnv or by a getShellEnv that
\* finds the cache empty; a getShellEnv that finds a cached map (whoever
\* awaits it: a direct caller, findExecutableInEnv, executeCommand) returns
\* that map, starts no probe and leaves the cache alone.
C3_NoReprobeWhenCached ==
  [][/\ probeCount' > probeCount =>
          /\ callCount' = callCount + 1
          /\ lastCaller' = "refreshShellEnv" \/ cachedEnv = NoEnv
     /\ (callCount' > callCount /\ lastCaller' # "refreshShellEnv" /\ cachedEnv # NoEnv) =>
          /\ calls'[callCount'].pc = "done"
          /\ calls'[callCount'].result = cachedEnv
          /\ probeCount' = probeCount
          /\ spawnCount' = spawnCount
          /\ cachedEnv' = cachedEnv]_cacheVars

\* findExecutableInEnv was served from the populated cache while another
\* probe was still in flight
C3_Witness ==
  /\ lastCaller = "findExecutableInEnv"
  /\ callCount >= 2
  /\ calls[callCount].pc = "done"
  /\ calls[callCount].probe = 0
  /\ calls[callCount].result = cachedEnv
  /\ cachedEnv # NoEnv
  /\ probeCount >= 1

\* the PATH output a resolved probe read: the PATH line of the login shell,
\* or the combined, expanded registry value
OutputPath(p) ==
  IF isWin THEN readWindowsRegistryPath(probes[p].out.sys, probes[p].out.usr, processEnv)
           ELSE Get(probes[p].out, "PATH")

RefreshDone == {c \in CallIds : calls[c].op = "refresh" /\ calls[c].pc = "done"}

\* a finished refresh that replaced a map built by an earlier successful probe,
\* its own probe having succeeded too
RefreshOverProbed ==
  {c \in RefreshDone : /\ calls[c].pre # NoEnv
                       /\ calls[c].pre.src # "fallback"
                       /\ calls[c].result.src # "fallback"}

BuiltPath(p) ==
  LET out == OutputPath(p)
      home == IF isWin THEN HomeDirFrom(processEnv, osHomedir)
                       ELSE HomeDirFrom(probes[p].out, osHomedir)
  IN Join(pushIfUnique(UniqueSegments(IF Truthy(out) THEN out ELSE PathOf(Env(0, "", processEnv)),
                                      <<>>, isWin),
                       CherryBinOf(home[1], isWin), isWin))

RegistryFailed ==
  {p \in 1..probeCount : isWin /\ probes[p].out = [sys |-> Null, usr |-> Null]}

\* C21: when both registry reads fail the Windows probe does not fail, and the
\* resulting PATH is the host's original PATH with the tool-bin directory
\* appended: no original segment is lost, changed or reordered.
C21_RegistryFailureKeepsPath ==
  \A p \in RegistryFailed :
    /\ probes[p].status = "resolved"
    /\ PathOf(probes[p].env) =
         Get(processEnv, PathKeys(processEnv)[1])
           \o <<CherryBinOf(HomeDirFrom(processEnv, osHomedir)[1], TRUE)>>

\* C23: on Windows getShellEnv and refreshShellEnv never call spawn, whatever
\* the two registry reads answer, both failing included.
C23_WindowsNeverSpawns ==
  isWin => /\ spawnCount = 0
           /\ \A p \in 1..probeCount : probes[p].status # "running"

\* on Windows a refresh has finished and some probe had both reads fail
C23_Witness ==
  /\ isWin
  /\ RefreshDone # {}
  /\ RegistryFailed # {}
  /\ \E p \in 1..probeCount : probes[p].status = "resolved" /\ p \notin RegistryFailed

\* the bin directory appendCherryBinToPath computes for a map: the home
\* variables are read from the map itself
ToolBinOfMap(env) == CherryBinOf(HomeDirFrom(env.vars, osHomedir)[1], isWin)

\* C25: every map returned by getShellEnv or refreshShellEnv, whether built
\* from the login shell, the registry or the fallback copy of process.env,
\* has a PATH whose segments include <home>/.cherrystudio/bin.
C25_ToolBinInEveryMap ==
  \A c \in CallIds :
    calls[c].pc = "done" =>
      \E i \in 1..Len(PathOf(calls[c].result)) :
        normaliseSegment(PathOf(calls[c].result)[i], isWin)
          = normaliseSegment(ToolBinOfMap(calls[c].result), isWin)

\* maps of two different origins were returned, one of them the fallback copy
C25_Witness ==
  \E c, d \in CallIds :
    /\ calls[c].pc = "done" /\ calls[c].result.src = "fallback"
    /\ calls[d].pc = "done" /\ calls[d].result.src \in {"shell", "registry"}
    /\ InSeq(ToolBinOfMap(calls[c].result), PathOf(calls[c].result))
    /\ InSeq(ToolBinOfMap(calls[d].result), PathOf(calls[d].result))

\* every map object that exists: the cached one, those returned to callers and
\* those built by settled probes (the id of a map is its object identity)
AllMaps ==
  ({cachedEnv} \cup {calls[c].result : c \in CallIds}
               \cup {probes[p].env : p \in CallIds}) \ {NoEnv}

\* C29: every probe builds a new map object; refreshShellEnv replaces the
\* cache reference and never mutates a map returned earlier, nor process.env.
C29_ProbesBuildNewMaps ==
  [][/\ processEnv' = processEnv
     /\ \A m \in AllMaps : \A n \in AllMaps' : n.id = m.id => n = m
     /\ \A c \in CallIds :
          (calls'[c].op = "refresh" /\ calls'[c].pc = "done" /\ calls[c].pc # "done") =>
            /\ cachedEnv' = calls'[c].result
            /\ \A m \in AllMaps : m.id # calls'[c].result.id \/ m = calls'[c].result]_cacheVars

\* a refresh replaced the cache while an earlier caller still holds the map
\* that was cached before it, unchanged
C29_Witness ==
  \E r \in RefreshDone : \E g \in CallIds :
    /\ calls[g].op = "get" /\ calls[g].pc = "done"
    /\ calls[r].pre # NoEnv
    /\ calls[g].result = calls[r].pre
    /\ calls[r].result.id # calls[g].result.id
    /\ calls[r].result.vars # calls[g].result.vars
    /\ cachedEnv = calls[r].result

\* C30: refreshShellEnv discards the cached map before it re-probes: a
\* getShellEnv made while a refresh is in flight does not return the map that
\* was cached before that refresh started.
C30_RefreshDiscardsCacheFirst ==
  \A r, g \in CallIds :
    (/\ r < g
     /\ calls[r].op = "refresh" /\ calls[r].pc = "awaiting" /\ calls[r].pre # NoEnv
     /\ calls[g].op = "get" /\ calls[g].pc = "done" /\ calls[g].probe = 0)
      => calls[g].result.id # calls[r].pre.id

\* C32: after refreshShellEnv has resolved with map M, every later
\* getShellEnv (no later refresh having started) returns M: a slower, older
\* probe never overwrites the cache with a staler map.
C32_OlderProbeNeverOverwrites ==
  \A r \in RefreshDone :
    (\A d \in CallIds : d > r => calls[d].op # "refresh") => cachedEnv = calls[r].result

----------------------------------------------------------------------------
(* Windows paths for findExecutable.  A path string is the sequence of its   *)
(* tokens: a drive "C:", the separator "\\", or a name.  Concatenation and   *)
(* startsWith on strings are concatenation and prefix on token sequences.    *)

Sep == "\\"

\* String.prototype.toLowerCase, token by token
LowerToken(t) ==
  CASE t = "C:" -> "c:"
    [] t = "D:" -> "d:"
    [] t = "Tools" -> "tools"
    [] t = "Proj" -> "proj"
    [] t = "npm.EXE" -> "npm.exe"
    [] t = "npm.CMD" -> "npm.cmd"
    [] t = "Custom" -> "custom"
    [] t = "BASH.EXE" -> "bash.exe"
    [] t = "Program Files" -> "program files"
    [] t = "Program Files (x86)" -> "program files (x86)"
    [] t = "Git" -> "git"
    [] t = "PortableGit" -> "portablegit"
    [] OTHER -> t

ToLowerCase(path) == [i \in 1..Len(path) |-> LowerToken(path[i])]

StartsWith(str, prefix) ==
  Len(prefix) <= Len(str) /\ SubSeq(str, 1, Len(prefix)) = prefix

\* lowerPath.endsWith(ext.toLowerCase()): decided by the last token
EndsWithExt(lowerPath, ext) ==
  /\ lowerPath # <<>>
  /\ CASE ext = ".exe" -> lowerPath[Len(lowerPath)] \in {"npm.exe", "mise.exe", "git.exe", "bash.exe"}
       [] ext = ".cmd" -> lowerPath[Len(lowerPath)] \in {"npm.cmd"}
       [] OTHER -> FALSE

\* the names between the separators, the drive left out
Components(path) == SelectSeq(Tail(path), LAMBDA t : t # Sep)

RECURSIVE ResolveComponents(_, _)
ResolveComponents(comps, acc) ==
  IF comps = <<>> THEN acc
  ELSE IF Head(comps) = ".."
    THEN ResolveComponents(Tail(comps), IF acc = <<>> THEN acc ELSE SubSeq(acc, 1, Len(acc) - 1))
  ELSE IF Head(comps) = "."
    THEN ResolveComponents(Tail(comps), acc)
  ELSE ResolveComponents(Tail(comps), Append(acc, Head(comps)))

RECURSIVE JoinComponents(_)
JoinComponents(comps) ==
  IF comps = <<>> THEN <<>>
  ELSE IF Len(comps) = 1 THEN comps
  ELSE <<Head(comps), Sep>> \o JoinComponents(Tail(comps))

\* path.resolve of an absolute drive path: '.' and '..' resolved, no trailing
\* separator except at the drive root
PathResolve(path) ==
  <<Head(path), Sep>> \o JoinComponents(ResolveComponents(Components(path), <<>>))

\* path.dirname of a resolved drive path; the drive root is its own parent
PathDirname(path) ==
  LET comps == Components(path)
  IN <<Head(path), Sep>>
       \o JoinComponents(IF comps = <<>> THEN <<>> ELSE SubSeq(comps, 1, Len(comps) - 1))

\* execDir === currentDir || execDir.startsWith(currentDir + path.sep)
SkippedAsInCwd(execDir, currentDir) ==
  \/ execDir = currentDir
  \/ StartsWith(execDir, currentDir \o <<Sep>>)

\* the working-directory check of one where.exe line
InCurrentDir(exePath, cwd) ==
  SkippedAsInCwd(ToLowerCase(PathDirname(ToLowerCase(PathResolve(exePath)))),
                 ToLowerCase(cwd))

DefaultExtensions == <<".exe", ".cmd">>

AnyExtension(exePath, extensions) == TRUE

HasAllowedExtension(exePath, extensions) ==
  \E i \in 1..Len(extensions) : EndsWithExt(ToLowerCase(exePath), extensions[i])

\* the loop over the where.exe lines: the first line with an allowed
\* extension that is not skipped, Null when there is none
RECURSIVE FirstAccepted(_, _, _)
FirstAccepted(paths, extensions, cwd) ==
  IF paths = <<>> THEN Null
  ELSE IF HasAllowedExtension(Head(paths), extensions) /\ ~InCurrentDir(Head(paths), cwd)
    THEN Head(paths)
  ELSE FirstAccepted(Tail(paths), extensions, cwd)

GitCommonPath == <<"C:", Sep, "Program Files", Sep, "Git", Sep, "cmd", Sep, "git.exe">>
GitName == <<"g", "i", "t">>

\* findExecutable(name, options) on Windows: gitAtCommonRoot tells whether
\* <root>\cmd\git.exe exists for some common root; where is the outcome of
\* execFileSync('where.exe', [name]): its lines, or a throw
findExecutable(name, extensions, gitAtCommonRoot, where, cwd) ==
  IF name = GitName /\ gitAtCommonRoot THEN GitCommonPath
  ELSE IF where.kind = "ok" THEN FirstAccepted(where.lines, extensions, cwd)
  ELSE Null

----------------------------------------------------------------------------
(* findExecutable applied to where.exe outputs *)

VARIABLES
  fe            \* one findExecutable call: its inputs, then its result

MaxCandidates == 2

NpmName == <<"n", "p", "m">>

CandidatePaths ==
  { <<"C:", Sep, "Tools", Sep, "npm.cmd">>,
    <<"C:", Sep, "Proj", Sep, "npm.CMD">>,
    <<"C:", Sep, "proj", Sep, "node_modules", Sep, "npm.exe">>,
    <<"C:", Sep, "Tools", Sep, "..", Sep, "proj", Sep, "npm.cmd">>,
    <<"C:", Sep, "npm.exe">>,
    <<"D:", Sep, "bin", Sep, "npm">> }

\* process.cwd(): a directory, or a drive root (which ends with the separator)
Cwds == { <<"C:", Sep, "proj">>, <<"C:", Sep>>, <<"D:", Sep, "work">> }

WhereLines == UNION { [1..n -> CandidatePaths] : n \in 0..MaxCandidates }

FeIdle == [pc |-> "none", cwd |-> <<>>, lines |-> <<>>, name |-> <<>>, result |-> Null]

FeInit ==
  \E c \in Cwds, ls \in WhereLines :
    fe = [pc |-> "ready", cwd |-> c, lines |-> ls, name |-> <<>>, result |-> Null]

\* findExecutable(name) with the default extensions on Windows, where.exe
\* printing fe.lines
FindExecutableCall(name, gitAtCommonRoot) ==
  /\ fe.pc = "ready"
  /\ fe' = [fe EXCEPT !.pc = "done", !.name = name,
              !.result = findExecutable(name, DefaultExtensions, gitAtCommonRoot,
                                        [kind |-> "ok", lines |-> fe.lines], fe.cwd)]

\* the directory of a path is the working directory or lies below it,
\* compared component by component without regard to case
UnderCwd(path, cwd) ==
  LET dir == ToLowerCase(PathDirname(PathResolve(path)))
      cur == ToLowerCase(PathResolve(cwd))
  IN /\ Head(dir) = Head(cur)
     /\ StartsWith(Components(dir), Components(cur))

FromWhere == fe.pc = "done" /\ fe.result # Null /\ fe.result # GitCommonPath

\* C7: findExecutable never returns a where.exe candidate whose directory is
\* the current working directory or a subdirectory of it, whatever the
\* working directory (a drive root included); if every candidate lies there
\* the result is null.
C7_NeverReturnsFromCwd ==
  /\ FromWhere => ~UnderCwd(fe.result, fe.cwd)
  /\ (fe.pc = "done" /\ fe.name # GitName
        /\ \A i \in 1..Len(fe.lines) : UnderCwd(fe.lines[i], fe.cwd)) => fe.result = Null

----------------------------------------------------------------------------
(* findExecutableInEnv: findCommandInShellEnv, findExecutable, findViaMise *)

VARIABLES
  lookupName,   \* the name argument of the findExecutableInEnv call
  fpc,          \* where the call stands
  now,          \* the clock, in ms
  child,        \* the lookup child of findCommandInShellEnv
  timer,        \* its setTimeout timer
  resolved,     \* findCommandInShellEnv: let resolved
  found,        \* what each strategy returned
  result,       \* what findExecutableInEnv returned
  procLog,      \* every subprocess started, in order
  strategies,   \* the strategies invoked, in order
  output        \* findCommandInShellEnv: output.length

lookupVars == <<lookupName, fpc, now, child, timer, resolved, found, result, procLog,
                strategies, output>>

COMMAND_LOOKUP_TIMEOUT_MS == 5000
MAX_OUTPUT_SIZE == 10240
MISE_TIMEOUT_MS == 5000

MaxNameLen == 2
TickMs == 2500

Letters == {"a", "g", "i", "t", "n", "p", "m"}
Digits == {"7"}
Alphabet == {"a", "7", "_", "-", ";", "."}

LongName(n) == [i \in 1..n |-> "a"]

CommandNames ==
  UNION { [1..n -> Alphabet] : n \in 0..MaxNameLen }
    \cup {GitName, NpmName, LongName(128), LongName(129)}

\* [a-zA-Z0-9_]
IsWordChar(ch) == ch \in Letters \cup Digits \cup {"_"}

\* VALID_COMMAND_NAME_REGEX.test(command): /^[a-zA-Z0-9_][a-zA-Z0-9_-]{0,127}$/
ValidFirstCharOnly(command) == command # <<>> /\ IsWordChar(command[1])
ValidCommandName(command) ==
  /\ command # <<>>
  /\ IsWordChar(command[1])
  /\ Len(command) - 1 <= 127
  /\ \A i \in 2..Len(command) : IsWordChar(command[i]) \/ command[i] = "-"

\* the script handed to /bin/sh -c
ShellScript(command) == <<"command -v \"$1\"">>

Proc(prog, args, sync, timeout) ==
  [prog |-> prog, args |-> args, sync |-> sync, timeout |-> timeout]

\* spawn('where', [command]) / spawn('/bin/sh', ['-c', 'command -v "$1"', '--', command])
LookupSpawn(command) ==
  IF isWin THEN Proc("where", <<command>>, FALSE, 0)
           ELSE Proc("/bin/sh", <<<<"-c">>, ShellScript(command), <<"--">>, command>>, FALSE, 0)

PosixNpm == <<"/", "usr", "/", "bin", "/", "npm">>
WinNpmCmd == <<"C:", Sep, "Tools", Sep, "npm.cmd">>
WinNpmExe == <<"C:", Sep, "Tools", Sep, "npm.EXE">>
WinNpmInCwd == <<"C:", Sep, "proj", Sep, "npm.cmd">>
MiseExe == <<"C:", Sep, "mise", Sep, "mise.exe">>
MiseCmd == <<"C:", Sep, "mise", Sep, "mise.cmd">>
LookupCwd == <<"C:", Sep, "proj">>

\* the trimmed stdout of the lookup child, line by line
LookupOutputs ==
  IF isWin THEN { <<>>, <<WinNpmCmd>>, <<WinNpmCmd, WinNpmExe>> }
           ELSE { <<>>, <<PosixNpm>>, <<<<"npm">>>> }

\* path.isAbsolute
IsAbsolute(path, win) ==
  /\ path # <<>>
  /\ IF win THEN Head(path) = Sep \/ (Len(path) >= 2 /\ path[2] = Sep)
            ELSE Head(path) = "/"

RECURSIVE FirstExe(_)
\* paths.find((p) => p.toLowerCase().endsWith('.exe'))
FirstExe(paths) ==
  IF paths = <<>> THEN Null
  ELSE IF EndsWithExt(ToLowerCase(Head(paths)), ".exe") THEN Head(paths)
  ELSE FirstExe(Tail(paths))

FirstLine(code, lines) == IF code = 0 /\ lines # <<>> THEN lines[1] ELSE Null

\* the value the 'close' handler resolves with
CloseValue(code, lines) ==
  IF code = 0 /\ lines # <<>>
    THEN IF isWin THEN FirstExe(lines)
         ELSE IF IsAbsolute(lines[1], FALSE) THEN lines[1] ELSE Null
    ELSE Null

NoChild == [state |-> "none", signal |-> ""]
NoTimer == [state |-> "none", deadline |-> 0]
NotArmed(t) == NoTimer
\* setTimeout(..., COMMAND_LOOKUP_TIMEOUT_MS)
ArmTimer(t) == [state |-> "armed", deadline |-> t + COMMAND_LOOKUP_TIMEOUT_MS]

\* if (found) return found / if (winFound) return winFound
ReturnsNever(value) == FALSE
ReturnsFound(value) == value # Null

\* the Windows fallbacks are behind `if (isWin)`
FallbacksRun == isWin

Finish(value) == fpc' = "done" /\ result' = value

\* findExecutableInEnv(name), served by the populated cache, up to the await
\* of findCommandInShellEnv (a cache miss goes through GetShellEnv first).
\* spawn() sits in the promise executor outside any try: when it raises
\* synchronously (E2BIG, ENOMEM, a NUL byte in an env value) the executor's
\* exception rejects the promise and with it the awaiting findExecutableInEnv
FindExecutableInEnv(name, spawnThrows) ==
  /\ fpc = "idle"
  /\ ~CacheMiss
  /\ lookupName' = name
  /\ strategies' = <<"findCommandInShellEnv">>
  /\ IF ~ValidCommandName(name)
       THEN /\ fpc' = "resolved1"
            /\ UNCHANGED <<child, timer, resolved, procLog>>
       ELSE IF spawnThrows
         THEN /\ fpc' = "rejected"
              /\ UNCHANGED <<child, timer, resolved, procLog>>
         ELSE /\ fpc' = "await1"
              /\ child' = [state |-> "running", signal |-> ""]
              /\ timer' = ArmTimer(now)
              /\ resolved' = FALSE
              /\ procLog' = Append(procLog, LookupSpawn(name))
  /\ UNCHANGED <<now, found, result, output>>

\* safeResolve(value): the promise settles and the awaiting
\* findExecutableInEnv becomes runnable
SafeResolve(value) ==
  IF resolved THEN UNCHANGED <<resolved, found, fpc>>
  ELSE resolved' = TRUE /\ found' = [found EXCEPT !.shell = value] /\ fpc' = "resolved1"

EventLoopFree == fpc \in {"await1", "done"}

\* child.stdout.on('data'): a chunk of size characters is appended whole
\* when the output is still shorter than MAX_OUTPUT_SIZE, dropped otherwise
LookupData(size) ==
  /\ EventLoopFree
  /\ child.state = "running"
  /\ output' = IF output < MAX_OUTPUT_SIZE THEN output + size ELSE output
  /\ UNCHANGED <<lookupName, fpc, now, child, timer, resolved, found, result, procLog,
                 strategies>>

\* child.on('close'); lines is the trimmed output, line by line
LookupClose(code, lines) ==
  /\ EventLoopFree
  /\ child.state = "running"
  /\ lines # <<>> => output > 0
  /\ child' = [child EXCEPT !.state = "exited"]
  /\ timer' = IF timer.state = "armed" THEN [timer EXCEPT !.state = "cleared"] ELSE timer
  /\ SafeResolve(CloseValue(code, lines))
  /\ UNCHANGED <<lookupName, now, result, procLog, strategies, output>>

\* child.on('error')
LookupError ==
  /\ EventLoopFree
  /\ child.state = "running"
  /\ child.signal = ""
  /\ child' = [child EXCEPT !.state = "failed"]
  /\ timer' = IF timer.state = "armed" THEN [timer EXCEPT !.state = "cleared"] ELSE timer
  /\ SafeResolve(Null)
  /\ UNCHANGED <<lookupName, now, result, procLog, strategies, output>>

\* the timer callback, run when the deadline is reached
LookupTimeout ==
  /\ EventLoopFree
  /\ timer.state = "armed"
  /\ now >= timer.deadline
  /\ timer' = [timer EXCEPT !.state = "fired"]
  /\ IF resolved
       THEN UNCHANGED <<child, resolved, found, fpc>>
       ELSE child' = [child EXCEPT !.signal = "SIGKILL"] /\ SafeResolve(Null)
  /\ UNCHANGED <<lookupName, now, result, procLog, strategies, output>>

\* time passes while the lookup is awaited; a due timer runs before later time
Tick ==
  /\ fpc = "await1"
  /\ timer.state = "armed"
  /\ now < timer.deadline
  /\ now' = IF now + TickMs > timer.deadline THEN timer.deadline ELSE now + TickMs
  /\ UNCHANGED <<lookupName, fpc, child, timer, resolved, found, result, procLog,
                 strategies, output>>

\* findExecutableInEnv after `await findCommandInShellEnv(name, env)`
AfterShellLookup ==
  /\ fpc = "resolved1"
  /\ IF ReturnsFound(found.shell) THEN Finish(found.shell)
     ELSE IF FallbacksRun THEN fpc' = "findExecutable" /\ UNCHANGED result
     ELSE Finish(Null)
  /\ UNCHANGED <<lookupName, now, child, timer, resolved, found, procLog, strategies, output>>

\* execFileSync: the lines printed, a throw (non-zero exit, spawn failure), or
\* a program that never exits
SyncOutcomes(lineLists) ==
  {[kind |-> "ok", lines |-> ls] : ls \in lineLists}
    \cup {[kind |-> "throws", lines |-> <<>>], [kind |-> "hangs", lines |-> <<>>]}

\* an execFileSync with a timeout kills a hanging program and throws; without
\* one it never returns
Returns(outcome, timeout) == outcome.kind # "hangs" \/ timeout > 0
Effective(outcome) == IF outcome.kind = "hangs" THEN [outcome EXCEPT !.kind = "throws"] ELSE outcome

WhereExeTimeout == 0

\* const winFound = findExecutable(name, { env }); if (winFound) return winFound
FindExecutableStep(gitAtCommonRoot, where) ==
  /\ fpc = "findExecutable"
  /\ strategies' = Append(strategies, "findExecutable")
  /\ IF lookupName = GitName /\ gitAtCommonRoot
       THEN /\ procLog' = procLog
            /\ found' = [found EXCEPT !.win = GitCommonPath]
            /\ Finish(GitCommonPath)
       ELSE /\ procLog' = Append(procLog, Proc("where.exe", <<lookupName>>, TRUE, WhereExeTimeout))
            /\ IF ~Returns(where, WhereExeTimeout)
                 THEN fpc' = "blocked" /\ UNCHANGED <<found, result>>
                 ELSE LET r == findExecutable(lookupName, DefaultExtensions, FALSE,
                                              Effective(where), LookupCwd)
                      IN /\ found' = [found EXCEPT !.win = r]
                         /\ IF ReturnsFound(r) THEN Finish(r)
                            ELSE fpc' = "findViaMise" /\ UNCHANGED result
  /\ UNCHANGED <<lookupName, now, child, timer, resolved, output>>

\* findMiseExecutable(env): the first where.exe line when it ends in .exe
findMiseExecutable(where) ==
  IF where.kind = "ok" /\ where.lines # <<>>
       /\ EndsWithExt(ToLowerCase(where.lines[1]), ".exe")
    THEN where.lines[1] ELSE Null

MiseWhichFirstLine(which, exists) ==
  IF which.kind = "ok" /\ which.lines # <<>> THEN which.lines[1] ELSE Null

\* the result of `mise which <name>`: its first line when absolute and existing
MiseWhichValue(which, exists) ==
  IF which.kind = "ok" /\ which.lines # <<>> /\ IsAbsolute(which.lines[1], TRUE) /\ exists
    THEN which.lines[1] ELSE Null

\* return findViaMise(name, env)
FindViaMiseStep(where, which, exists) ==
  /\ fpc = "findViaMise"
  /\ strategies' = Append(strategies, "findViaMise")
  /\ IF ~ValidCommandName(lookupName)
       THEN /\ procLog' = procLog
            /\ found' = [found EXCEPT !.mise = Null]
            /\ Finish(Null)
       ELSE LET misePath == findMiseExecutable(Effective(where))
                whereProc == Proc("where.exe", <<<<"m", "i", "s", "e">>>>, TRUE, MISE_TIMEOUT_MS)
            IN IF misePath = Null
                 THEN /\ procLog' = Append(procLog, whereProc)
                      /\ found' = [found EXCEPT !.mise = Null,
                                                !.via = <<where, which, exists>>]
                      /\ Finish(Null)
                 ELSE /\ procLog' = procLog \o
                           <<whereProc,
                             Proc("mise.exe", <<<<"which">>, lookupName>>, TRUE, MISE_TIMEOUT_MS)>>
                      /\ found' = [found EXCEPT !.mise = MiseWhichValue(Effective(which), exists),
                                                !.via = <<where, which, exists>>]
                      /\ Finish(MiseWhichValue(Effective(which), exists))
  /\ UNCHANGED <<lookupName, now, child, timer, resolved, output>>

\* what each strategy returned; via is what the two mise subprocesses
\* answered and whether the path printed exists
NoFound == [shell |-> Null, win |-> Null, mise |-> Null, via |-> <<>>]

LookupIdle ==
  /\ lookupName = <<>>
  /\ fpc = "idle"
  /\ now = 0
  /\ child = NoChild
  /\ timer = NoTimer
  /\ resolved = FALSE
  /\ found = NoFound
  /\ result = Null
  /\ procLog = <<>>
  /\ strategies = <<>>
  /\ output = 0

WhereListsForLookup == { <<>>, <<WinNpmInCwd>>, <<WinNpmCmd>> }

----------------------------------------------------------------------------
(* Git Bash: validateGitBashPath, findGitBash, autoDiscoverGitBash,          *)
(* getGitBashPathInfo (Windows)                                              *)

VARIABLES
  gbFiles,      \* the paths for which fs.existsSync answers true
  gbOverride,   \* process.env.CLAUDE_CODE_GIT_BASH_PATH, Null when unset
  gbConfig,     \* configManager: GitBashPath and GitBashPathSource
  gbCall        \* the latest Git Bash call: its arguments, effects and result

gitBashVars == <<gbFiles, gbOverride, gbConfig, gbCall>>

\* the paths of the model: the standard and the portable Git layout, and
\* what a user may have typed into the override variable, the settings or
\* the customPath argument
GitBashPaths ==
  [std |-> <<"C:", Sep, "Program Files", Sep, "Git", Sep, "bin", Sep, "bash.exe">>,
   portableGit |-> <<"D:", Sep, "PortableGit", Sep, "bin", Sep, "git.exe">>,
   portable |-> <<"D:", Sep, "PortableGit", Sep, "bin", Sep, "bash.exe">>,
   custom |-> <<"D:", Sep, "custom", Sep, "bash.exe">>,
   upper |-> <<"D:", Sep, "Custom", Sep, "BASH.EXE">>,
   dotted |-> <<"D:", Sep, "custom", Sep, ".", Sep, "bash.exe">>,
   notBash |-> <<"D:", Sep, "custom", Sep, "notbash.exe">>]

\* fs.existsSync on a case-insensitive volume
ExistsSync(path, files) ==
  \E f \in files : ToLowerCase(f) = ToLowerCase(path)

\* resolved.toLowerCase().endsWith('bash.exe'): decided by the last token
EndsWithBashExe(lowerPath) ==
  lowerPath # <<>> /\ lowerPath[Len(lowerPath)] \in {"bash.exe", "notbash.exe"}

\* validateGitBashPath(customPath)
validateGitBashPath(customPath, files) ==
  IF customPath = Null THEN Null
  ELSE LET resolvedPath == PathResolve(customPath)
       IN IF ~ExistsSync(resolvedPath, files) THEN Null
          ELSE IF ~EndsWithBashExe(ToLowerCase(resolvedPath)) THEN Null
          ELSE resolvedPath

\* getCommonGitRoots() with ProgramFiles, ProgramFiles(x86) and LOCALAPPDATA
\* unset
getCommonGitRoots ==
  << <<"C:", Sep, "Program Files", Sep, "Git">>,
     <<"C:", Sep, "Program Files (x86)", Sep, "Git">> >>

\* the first path of a list that exists, Null when none does
RECURSIVE FirstExisting(_, _)
FirstExisting(paths, files) ==
  IF paths = <<>> THEN Null
  ELSE IF ExistsSync(Head(paths), files) THEN Head(paths)
  ELSE FirstExisting(Tail(paths), files)

\* the three layouts probed relative to git.exe, each through path.resolve
possibleBashPaths(gitPath) ==
  << PathResolve(gitPath \o <<Sep, "..", Sep, "..", Sep, "bin", Sep, "bash.exe">>),
     PathResolve(gitPath \o <<Sep, "..", Sep, "bash.exe">>),
     PathResolve(gitPath \o <<Sep, "..", Sep, "..", Sep, "usr", Sep, "bin", Sep, "bash.exe">>) >>

\* steps 3 and 4 of findGitBash: derive bash.exe from git.exe, then probe
\* <root>\bin\bash.exe under the common roots
DiscoverGitBash(files, where) ==
  LET gitPath == findExecutable(GitName, DefaultExtensions, ExistsSync(GitCommonPath, files),
                                where, LookupCwd)
      derived == IF gitPath = Null THEN Null ELSE FirstExisting(possibleBashPaths(gitPath), files)
  IN IF derived # Null THEN derived
     ELSE FirstExisting([i \in 1..Len(getCommonGitRoots) |->
                           getCommonGitRoots[i] \o <<Sep, "bin", Sep, "bash.exe">>], files)

\* findGitBash(customPath): [path, by] with by the step that produced the path
findGitBash(customPath, override, files, where) ==
  IF validateGitBashPath(customPath, files) # Null
    THEN [path |-> validateGitBashPath(customPath, files), by |-> "custom"]
  ELSE IF validateGitBashPath(override, files) # Null
    THEN [path |-> validateGitBashPath(override, files), by |-> "override"]
  ELSE [path |-> DiscoverGitBash(files, where), by |-> "discovery"]

NoConfig == [path |-> Null, source |-> "none"]

\* auto-discovery that does not look at the persisted path
AutoDiscoverSkippingConfig(override, config, files, where) ==
  [path |-> DiscoverGitBash(files, where), by |-> "discovery",
   config |-> IF DiscoverGitBash(files, where) # Null
                THEN [path |-> DiscoverGitBash(files, where), source |-> "auto"]
                ELSE config]

\* auto-discovery that persists whatever the override variable gave
AutoDiscoverPersistingOverride(override, config, files, where) ==
  [path |-> validateGitBashPath(override, files), by |-> "override",
   config |-> [path |-> validateGitBashPath(override, files), source |-> "auto"]]

\* autoDiscoverGitBash(): [path, by, config] with config the configuration
\* it leaves behind
autoDiscoverGitBash(override, config, files, where) ==
  IF validateGitBashPath(override, files) # Null
    THEN [path |-> validateGitBashPath(override, files), by |-> "override", config |-> config]
  ELSE IF validateGitBashPath(config.path, files) # Null
    THEN [path |-> validateGitBashPath(config.path, files), by |-> "config", config |-> config]
  ELSE LET discovered == findGitBash(Null, override, files, where)
       IN [path |-> discovered.path, by |-> discovered.by,
           config |-> IF discovered.path # Null
                        THEN [path |-> discovered.path, source |-> "auto"]
                        ELSE config]

\* getGitBashPathInfo(): the configured path as it is, else auto-discovery
getGitBashPathInfo(override, config, files, where) ==
  IF config.path # Null
    THEN [path |-> config.path, by |-> "config", config |-> config, source |-> config.source]
    ELSE LET auto == autoDiscoverGitBash(override, config, files, where)
         IN [path |-> auto.path, by |-> auto.by, config |-> auto.config,
             source |-> IF auto.path # Null THEN "auto" ELSE "none"]

\* where.exe is run by a call exactly when it reaches findExecutable('git')
\* and no <root>\cmd\git.exe exists
RunsWhere(by, files) == by = "discovery" /\ ~ExistsSync(GitCommonPath, files)

\* what `where.exe git` may answer on this disk
GitWhereOutcomes(files) ==
  SyncOutcomes({<<>>} \cup (IF GitBashPaths.portableGit \in files THEN {<<GitBashPaths.portableGit>>} ELSE {}))

GbIdle == [fn |-> "none", pc |-> "idle", custom |-> Null, path |-> Null, by |-> "none",
           source |-> "none", before |-> NoConfig]

\* a synchronous call either returns or, its where.exe never exiting, blocks
GbReturn(fn, custom, r, src, where) ==
  IF RunsWhere(r.by, gbFiles) /\ ~Returns(where, WhereExeTimeout)
    THEN /\ gbCall' = [fn |-> fn, pc |-> "blocked", custom |-> custom, path |-> Null,
                       by |-> r.by, source |-> "none", before |-> gbConfig]
         /\ UNCHANGED gbConfig
    ELSE /\ gbCall' = [fn |-> fn, pc |-> "done", custom |-> custom, path |-> r.path,
                       by |-> r.by, source |-> src, before |-> gbConfig]
         /\ gbConfig' = r.config

FindGitBashCall(custom, where) ==
  /\ gbCall.pc # "blocked"
  /\ LET r == findGitBash(custom, gbOverride, gbFiles, Effective(where))
     IN GbReturn("findGitBash", custom, [path |-> r.path, by |-> r.by, config |-> gbConfig],
                 "none", where)
  /\ UNCHANGED <<gbFiles, gbOverride>>

AutoDiscoverGitBashCall(where) ==
  /\ gbCall.pc # "blocked"
  /\ GbReturn("autoDiscoverGitBash", Null,
              autoDiscoverGitBash(gbOverride, gbConfig, gbFiles, Effective(where)), "none", where)
  /\ UNCHANGED <<gbFiles, gbOverride>>

GetGitBashPathInfoCall(where) ==
  /\ gbCall.pc # "blocked"
  /\ LET r == getGitBashPathInfo(gbOverride, gbConfig, gbFiles, Effective(where))
     IN GbReturn("getGitBashPathInfo", Null, r, r.source, where)
  /\ UNCHANGED <<gbFiles, gbOverride>>

GitBashIdle ==
  /\ gbFiles = {}
  /\ gbOverride = Null
  /\ gbConfig = NoConfig
  /\ gbCall = GbIdle

----------------------------------------------------------------------------
(* appendCherryBinToPath and the registry PATH applied to drawn inputs *)

VARIABLES
  pa            \* one application: the drawn environment, then the results

MaxSegments == 3

\* the PATH segments of the model: plain, padded, un-normalised and empty
\* ones, and the bin directory itself, exact, with a trailing separator and
\* (Windows) in another letter case
PathSegments ==
  IF isWin
    THEN {"C:\\Windows", "C:\\WINDOWS", "C:\\NodeJS", "C:\\Users\\u\\.cherrystudio\\bin",
          "C:\\USERS\\U\\.cherrystudio\\bin", "C:\\Users\\u\\.cherrystudio\\bin\\"}
    ELSE {"/usr/bin", " /opt/bin", "/usr//bin", "", "/home/u/.cherrystudio/bin",
          "/home/u/.cherrystudio/bin/"}

\* appendCherryBinToPath(env)
AppendCherryBin ==
  /\ pa.pc = "ready"
  /\ pa' = [pc |-> "once", home |-> pa.home, path |-> pa.path, env |-> pa.env,
            once |-> appendCherryBinToPath(pa.env, isWin, pa.home)]

\* appendCherryBinToPath(env) on the map it has already been applied to
AppendCherryBinAgain ==
  /\ pa.pc = "once"
  /\ pa' = [pc |-> "twice", home |-> pa.home, path |-> pa.path, env |-> pa.env,
            once |-> pa.once,
            twice |-> appendCherryBinToPath(pa.once, isWin, pa.home)]

\* getWindowsEnvironment() over a process.env, the two reg queries answering
\* sys and usr (Null: the query failed)
ReadRegistry(sys, usr) ==
  /\ pa.pc = "ready"
  /\ pa' = [pc |-> "registry", env |-> pa.env, sys |-> sys, usr |-> usr,
            reg |-> readWindowsRegistryPath(sys, usr, pa.env),
            once |-> appendCherryBinToPath(
                       WindowsEnvBeforeAppend(pa.env, [sys |-> sys, usr |-> usr]),
                       TRUE, "C:\\Users\\u")]

----------------------------------------------------------------------------
(* executeCommand.  A stream's accumulated text is the sequence of the       *)
(* chunks received, '' being <<>>; an exit code is written as the text the   *)
(* error message interpolates: "0", "1", "null" (killed by a signal) or the  *)
(* negative errno that follows a failed spawn.                               *)

VARIABLES
  ex            \* one executeCommand call: options, child, timer, promise

MaxChunks == 2

KeepsTimerArmed(t) == t

\* if (timeoutId) clearTimeout(timeoutId)
ClearTimeout(t) == IF t = "armed" THEN "cleared" ELSE t

\* resolve/reject of the returned promise: only the first call settles it
ExecSettle(promise, outcome) == IF promise.state = "pending" THEN outcome ELSE promise

CloseAlwaysResolves(code, capture, stdout, stderr) ==
  [state |-> "resolved", kind |-> "stdout", text |-> stdout]

\* the 'close' handler: resolve(capture ? stdout : '') on code 0, else
\* reject(new Error(stderr || `Command failed with code ${code}`))
CloseOutcome(code, capture, stdout, stderr) ==
  IF code = "0"
    THEN [state |-> "resolved", kind |-> "stdout",
          text |-> IF capture THEN stdout ELSE <<>>]
    ELSE IF stderr # <<>>
      THEN [state |-> "rejected", kind |-> "stderr", text |-> stderr]
      ELSE [state |-> "rejected", kind |-> "failed with code", text |-> <<code>>]

\* executeCommand(command, args, options) up to the end of the promise
\* executor: the environment is options.env or the awaited getShellEnv();
\* crossPlatformSpawn runs a non-.exe command through a shell on Windows; a
\* synchronous throw of spawn rejects the promise before any handler or timer
\* is installed; the timer is armed only for a truthy options.timeout
ExecuteCommand(command, capture, timeout, hasEnv, spawnThrows) ==
  /\ ex.pc = "idle"
  /\ cachedEnv # NoEnv
  /\ ex' = [pc |-> IF spawnThrows THEN "threw" ELSE "spawned",
            command |-> command,
            shell |-> isWin /\ ~EndsWithExt(ToLowerCase(command), ".exe"),
            env |-> IF hasEnv THEN "options.env" ELSE "getShellEnv",
            capture |-> capture,
            timeout |-> timeout,
            child |-> IF spawnThrows THEN NoChild ELSE [state |-> "running", signal |-> ""],
            timer |-> IF ~spawnThrows /\ timeout # 0 THEN "armed" ELSE "none",
            stdout |-> <<>>,
            stderr |-> <<>>,
            code |-> "",
            events |-> <<>>,
            promise |-> IF spawnThrows
                          THEN [state |-> "rejected", kind |-> "spawn", text |-> <<>>]
                          ELSE [state |-> "pending", kind |-> "", text |-> <<>>]]

\* child.stdout / child.stderr 'data': the chunk is appended
ExecData(stream, chunk) ==
  /\ ex.pc = "spawned"
  /\ ex.child.state = "running"
  /\ Len(ex.stdout) + Len(ex.stderr) < MaxChunks
  /\ ex' = IF stream = "stdout" THEN [ex EXCEPT !.stdout = Append(@, chunk)]
                                ELSE [ex EXCEPT !.stderr = Append(@, chunk)]

\* the timer callback: child.kill('SIGKILL'); reject(timed out)
ExecTimeout ==
  /\ ex.pc = "spawned"
  /\ ex.timer = "armed"
  /\ ex' = [ex EXCEPT !.timer = "fired",
                      !.child.signal = IF ex.child.state = "running" THEN "SIGKILL" ELSE @,
                      !.events = Append(@, "timeout"),
                      !.promise = ExecSettle(@, [state |-> "rejected", kind |-> "timed out",
                                                 text |-> <<>>])]

\* child.on('error'): the spawn failed asynchronously; 'close' follows
ExecError ==
  /\ ex.pc = "spawned"
  /\ ex.child.state = "running"
  /\ ex.child.signal = ""
  /\ ex.stdout = <<>> /\ ex.stderr = <<>>
  /\ ex' = [ex EXCEPT !.child.state = "failed",
                      !.timer = ClearTimeout(@),
                      !.events = Append(@, "error"),
                      !.promise = ExecSettle(@, [state |-> "rejected", kind |-> "spawn",
                                                 text |-> <<>>])]

\* child.on('close', code): the child has ended and its streams are closed.
\* A child killed by the timer closes with code null unless it had already
\* exited; after a failed spawn the code is the negative errno.
ExecClose(code) ==
  /\ ex.pc = "spawned"
  /\ ex.child.state \in {"running", "failed"}
  /\ code \in IF ex.child.state = "failed" THEN {"-2"}
              ELSE IF ex.child.signal = "SIGKILL" THEN {"null", "0", "1"}
              ELSE {"0", "1"}
  /\ ex' = [ex EXCEPT !.child.state = "closed",
                      !.timer = ClearTimeout(@),
                      !.code = code,
                      !.events = Append(@, "close"),
                      !.promise = ExecSettle(@, CloseOutcome(code, ex.capture,
                                                             ex.stdout, ex.stderr))]

----------------------------------------------------------------------------
(* The login-shell probe of getLoginShellEnvironment on POSIX, event by      *)
(* event.  A line of the shell's output is the sequence of its tokens: a     *)
(* name, "=", " " or a value text; exit codes are written as for             *)
(* executeCommand.                                                           *)

VARIABLES
  sh            \* one fetchShellEnv call: clock, child, timer, settled, outcome

SHELL_ENV_TIMEOUT_MS == 15000
MaxLines == 2

LastSeparatorIndex(line) ==
  IF \E i \in 1..Len(line) : line[i] = "="
    THEN CHOOSE i \in 1..Len(line) : line[i] = "=" /\ \A j \in i + 1..Len(line) : line[j] # "="
    ELSE 0

\* trimmedLine.indexOf('='), counted from 1: 0 when there is none
SeparatorIndex(line) ==
  IF \E i \in 1..Len(line) : line[i] = "="
    THEN CHOOSE i \in 1..Len(line) : line[i] = "=" /\ \A j \in 1..i - 1 : line[j] # "="
    ELSE 0

\* lines.forEach: each line is trimmed; a non-empty one with '=' after its
\* first character sets env[key] = value, key the text before the first '='
\* and value the text after it
RECURSIVE ParseEnvLines(_, _)
ParseEnvLines(lines, env) ==
  IF lines = <<>> THEN env
  ELSE LET line == Head(lines)
           from == IF line # <<>> /\ Head(line) = " " THEN 2 ELSE 1
           to == IF Len(line) >= from /\ line[Len(line)] = " " THEN Len(line) - 1 ELSE Len(line)
           trimmedLine == SubSeq(line, from, to)
           separatorIndex == SeparatorIndex(trimmedLine)
           text(tokens) == CASE tokens = <<>> -> ""
                             [] Len(tokens) = 1 -> tokens[1]
                             [] tokens = <<"b", "=", "c">> -> "b=c"
                             [] OTHER -> "?"
       IN ParseEnvLines(Tail(lines),
            IF separatorIndex > 1
              THEN Put(env, text(SubSeq(trimmedLine, 1, separatorIndex - 1)),
                       Str(text(SubSeq(trimmedLine, separatorIndex + 1, Len(trimmedLine)))))
              ELSE env)

CloseFailsOnStderr(code, errorOutput) == code = "0" /\ ~errorOutput

\* the 'close' handler takes the success path unless `code !== 0`; stderr
\* output with code 0 is only logged
CloseSucceeds(code, errorOutput) == code = "0"

SettleAgain(s, outcome) ==
  [s EXCEPT !.settled = TRUE, !.outcome = outcome]

\* resolveOnce / rejectOnce: nothing when already settled; else the flag is
\* set, cleanup() clears a pending timer and the promise settles; the
\* awaiting fetchShellEnv then returns the map or, from its catch block, the
\* fallback copy of process.env
SettleOnce(s, outcome) ==
  IF s.settled THEN s
  ELSE [s EXCEPT !.settled = TRUE,
                 !.timer.state = IF @ = "armed" THEN "cleared" ELSE @,
                 !.outcome = outcome,
                 !.fetch = IF fetchShellEnvRejects(outcome)
                             THEN [status |-> "rejected", env |-> NoEnv]
                             ELSE [status |-> "resolved", env |-> fetchShellEnv(1, outcome)]]

\* fetchShellEnv() -> getLoginShellEnvironment() with an empty cache: the
\* promise executor rejects at once when no home directory can be determined,
\* else spawns the login shell and arms the timer
GetLoginShellEnvironment ==
  /\ sh.pc = "idle"
  /\ ~isWin
  /\ CacheMiss
  /\ LET started == [pc |-> "called", now |-> 0, child |-> NoChild, timer |-> NoTimer,
                     settled |-> FALSE, events |-> <<>>, code |-> "", lines |-> <<>>,
                     errorOutput |-> FALSE, parsed |-> <<>>,
                     outcome |-> [status |-> "pending", why |-> "", env |-> NoEnv],
                     fetch |-> [status |-> "pending", env |-> NoEnv]]
     IN sh' = IF getLoginShellEnvironment(1, 1, NoOutput).status = "rejected"
                THEN SettleOnce(started, [status |-> "rejected", why |-> "home", env |-> NoEnv])
                ELSE [started EXCEPT !.child = [state |-> "running", signal |-> ""],
                                     !.timer = [state |-> "armed",
                                                deadline |-> SHELL_ENV_TIMEOUT_MS]]

\* time passes while the shell runs; a due timer runs before later time
ShellTick ==
  /\ sh.pc = "called"
  /\ sh.timer.state = "armed"
  /\ sh.now < sh.timer.deadline
  /\ sh' = [sh EXCEPT !.now = IF @ + 2 * TickMs > sh.timer.deadline
                                THEN sh.timer.deadline ELSE @ + 2 * TickMs]

ShellTimeoutKillsOnly ==
  /\ sh.pc = "called"
  /\ sh.timer.state = "armed"
  /\ sh.now >= sh.timer.deadline
  /\ sh' = [sh EXCEPT !.timer.state = "fired", !.child.signal = "SIGTERM",
                      !.events = Append(@, "timeout")]

\* the timer callback: child.kill() (SIGTERM); rejectOnce(timed out)
ShellTimeout ==
  /\ sh.pc = "called"
  /\ sh.timer.state = "armed"
  /\ sh.now >= sh.timer.deadline
  /\ sh' = SettleOnce([sh EXCEPT !.timer.state = "fired",
                                 !.child.signal = IF sh.child.state = "running"
                                                    THEN "SIGTERM" ELSE @,
                                 !.events = Append(@, "timeout")],
                      [status |-> "rejected", why |-> "timeout", env |-> NoEnv])

\* child.on('error'): the shell could not be started; 'close' follows
ShellError ==
  /\ sh.pc = "called"
  /\ sh.child = [state |-> "running", signal |-> ""]
  /\ sh.now = 0
  /\ sh' = SettleOnce([sh EXCEPT !.child.state = "failed", !.events = Append(@, "error")],
                      [status |-> "rejected", why |-> "error", env |-> NoEnv])

\* child.on('close', code): nothing when already settled; a non-zero code
\* rejects; else the output is parsed, the bin directory appended and the
\* promise resolved.  errorOutput tells whether the shell wrote to stderr
ShellClose(code, lines, errorOutput) ==
  /\ sh.pc = "called"
  /\ sh.child.state \in {"running", "failed"}
  /\ code \in IF sh.child.state = "failed" THEN {"-2"}
              ELSE IF sh.child.signal = "SIGTERM" THEN {"null", "0", "1"}
              ELSE {"0", "1"}
  /\ LET closed == [sh EXCEPT !.child.state = "closed", !.events = Append(@, "close"),
                              !.code = code, !.lines = lines,
                              !.errorOutput = errorOutput]
     IN sh' = IF sh.settled THEN closed
              ELSE IF ~CloseSucceeds(code, errorOutput)
                THEN SettleOnce(closed, [status |-> "rejected", why |-> "code", env |-> NoEnv])
                ELSE SettleOnce([closed EXCEPT !.parsed = ParseEnvLines(lines, <<>>)],
                                [status |-> "resolved", why |-> "close",
                                 env |-> Env(1, "shell",
                                             appendCherryBinToPath(ParseEnvLines(lines, <<>>),
                                                                   FALSE, osHomedir))])

----------------------------------------------------------------------------
(* Specifications *)

vars == <<cacheVars, fe, lookupVars, gitBashVars, pa, ex, sh>>

\* the host of the lookups: a cache already populated by one getShellEnv whose
\* probe failed
PopulatedByFallback ==
  /\ isWin \in BOOLEAN
  /\ processEnv = IF isWin
                    THEN <<Entry("USERPROFILE", Str("C:\\Users\\u")),
                           Entry("Path", <<"C:\\StaleOldPath">>)>>
                    ELSE <<Entry("HOME", Str("/home/u")), Entry("PATH", <<"/usr/bin">>)>>
  /\ osHomedir = IF isWin THEN "C:\\Users\\u" ELSE "/home/u"
  /\ cachedEnv = Env(1, "fallback", appendCherryBinToPath(processEnv, isWin, osHomedir))
  /\ calls = [c \in CallIds |->
                IF c = 1 THEN [op |-> "get", pc |-> "done", probe |-> 1,
                               result |-> cachedEnv, pre |-> NoEnv, early |-> TRUE]
                         ELSE IdleCall]
  /\ probes = [p \in CallIds |->
                 IF p = 1 THEN [status |-> "rejected", owner |-> 1, out |-> NoOutput,
                                env |-> NoEnv]
                          ELSE NoProbe]
  /\ callCount = 1
  /\ lastCaller = "getShellEnv"
  /\ probeCount = 1
  /\ spawnCount = IF isWin THEN 0 ELSE 1

Init == CacheInit /\ fe = FeIdle /\ LookupIdle /\ GitBashIdle /\ pa = [pc |-> "idle"] /\ ex = [pc |-> "idle"] /\ sh = [pc |-> "idle"]
Next ==
  \/ \E c \in CallIds : GetShellEnv(c, "getShellEnv") /\ UNCHANGED <<fe, lookupVars, gitBashVars, pa, ex, sh>>
  \/ \E c \in CallIds : GetShellEnv(c, "findExecutableInEnv") /\ UNCHANGED <<fe, lookupVars, gitBashVars, pa, ex, sh>>
  \/ \E c \in CallIds : GetShellEnv(c, "executeCommand") /\ UNCHANGED <<fe, lookupVars, gitBashVars, pa, ex, sh>>
  \/ \E c \in CallIds : RefreshShellEnv(c) /\ UNCHANGED <<fe, lookupVars, gitBashVars, pa, ex, sh>>
  \/ \E c \in CallIds : Resume(c) /\ UNCHANGED <<fe, lookupVars, gitBashVars, pa, ex, sh>>
  \/ \E p \in CallIds, out \in ShellOutputs : ChildCloses(p, out) /\ UNCHANGED <<fe, lookupVars, gitBashVars, pa, ex, sh>>
  \/ \E p \in CallIds : ChildFails(p) /\ UNCHANGED <<fe, lookupVars, gitBashVars, pa, ex, sh>>
Spec == Init /\ [][Next]_vars

FindInit ==
  PopulatedByFallback /\ isWin /\ FeInit /\ LookupIdle /\ GitBashIdle /\ pa = [pc |-> "idle"] /\ ex = [pc |-> "idle"] /\ sh = [pc |-> "idle"]
FindNext ==
  \E name \in {NpmName, GitName}, g \in BOOLEAN :
    FindExecutableCall(name, g) /\ UNCHANGED <<cacheVars, lookupVars, gitBashVars, pa, ex, sh>>
FindSpec == FindInit /\ [][FindNext]_vars

\* a lookup starts from a populated cache; a login-shell probe from an empty
\* one on a POSIX host
LookupInit ==
  (PopulatedByFallback \/ (CacheInit /\ ~isWin)) /\ fe = FeIdle /\ LookupIdle /\ GitBashIdle /\ pa = [pc |-> "idle"] /\ ex = [pc |-> "idle"] /\ sh = [pc |-> "idle"]
LookupNext ==
  \/ \E name \in CommandNames, spawnThrows \in BOOLEAN :
        FindExecutableInEnv(name, spawnThrows) /\ UNCHANGED <<cacheVars, fe, gitBashVars, pa, ex, sh>>
  \/ \E code \in {0, 1}, lines \in LookupOutputs :
        LookupClose(code, lines) /\ UNCHANGED <<cacheVars, fe, gitBashVars, pa, ex, sh>>
  \/ \E size \in {8192, 65536} :
        LookupData(size) /\ UNCHANGED <<cacheVars, fe, gitBashVars, pa, ex, sh>>
  \/ LookupError /\ UNCHANGED <<cacheVars, fe, gitBashVars, pa, ex, sh>>
  \/ GetLoginShellEnvironment /\ UNCHANGED <<cacheVars, fe, lookupVars, gitBashVars, pa, ex>>
  \/ ShellTick /\ UNCHANGED <<cacheVars, fe, lookupVars, gitBashVars, pa, ex>>
  \/ ShellTimeout /\ UNCHANGED <<cacheVars, fe, lookupVars, gitBashVars, pa, ex>>
  \/ ShellError /\ UNCHANGED <<cacheVars, fe, lookupVars, gitBashVars, pa, ex>>
  \/ \E code \in {"0", "1", "null", "-2"}, errorOutput \in BOOLEAN,
        lines \in UNION { [1..n -> { <<"PATH", "=", "/usr/bin">>, <<"HOME", "=", "/home/u">>,
                                      <<"A", "=", "b", "=", "c">>, <<"=", "x">>,
                                      <<"noequals">>, <<"A", "=", "z">>,
                                      <<" ", "A", "=", "z", " ">> }] :
                         n \in 0..MaxLines } :
        ShellClose(code, lines, errorOutput)
          /\ UNCHANGED <<cacheVars, fe, lookupVars, gitBashVars, pa, ex>>
  \/ LookupTimeout /\ UNCHANGED <<cacheVars, fe, gitBashVars, pa, ex, sh>>
  \/ Tick /\ UNCHANGED <<cacheVars, fe, gitBashVars, pa, ex, sh>>
  \/ AfterShellLookup /\ UNCHANGED <<cacheVars, fe, gitBashVars, pa, ex, sh>>
  \/ \E g \in BOOLEAN, where \in SyncOutcomes(WhereListsForLookup) :
        FindExecutableStep(g, where) /\ UNCHANGED <<cacheVars, fe, gitBashVars, pa, ex, sh>>
  \/ \E where \in SyncOutcomes({<<MiseExe>>, <<MiseCmd>>}),
        which \in SyncOutcomes({<<WinNpmExe>>, <<<<"npm.exe">>>>}),
        exists \in BOOLEAN :
        FindViaMiseStep(where, which, exists) /\ UNCHANGED <<cacheVars, fe, gitBashVars, pa, ex, sh>>

\* any disk content, override, persisted configuration (a path a user entered
\* or an earlier run discovered, which may have vanished since)
GitBashInit ==
  /\ PopulatedByFallback /\ isWin /\ fe = FeIdle /\ LookupIdle /\ pa = [pc |-> "idle"] /\ ex = [pc |-> "idle"] /\ sh = [pc |-> "idle"]
  /\ gbFiles \in SUBSET {GitCommonPath, GitBashPaths.std, GitBashPaths.portableGit,
                         GitBashPaths.portable, GitBashPaths.custom, GitBashPaths.notBash}
  /\ gbOverride \in {Null, GitBashPaths.custom, GitBashPaths.upper, GitBashPaths.notBash}
  /\ gbConfig \in {NoConfig} \cup
       {[path |-> q, source |-> "manual"] :
          q \in {GitBashPaths.std, GitBashPaths.dotted, GitBashPaths.notBash, GitCommonPath}}
  /\ gbCall = GbIdle
GitBashNext ==
  \/ \E custom \in {Null, GitBashPaths.std, GitBashPaths.custom, GitBashPaths.notBash,
                     GitCommonPath}, where \in GitWhereOutcomes(gbFiles) :
        FindGitBashCall(custom, where) /\ UNCHANGED <<cacheVars, fe, lookupVars, pa, ex, sh>>
  \/ \E where \in GitWhereOutcomes(gbFiles) :
        AutoDiscoverGitBashCall(where) /\ UNCHANGED <<cacheVars, fe, lookupVars, pa, ex, sh>>
  \/ \E where \in GitWhereOutcomes(gbFiles) :
        GetGitBashPathInfoCall(where) /\ UNCHANGED <<cacheVars, fe, lookupVars, pa, ex, sh>>
GitBashSpec == GitBashInit /\ [][GitBashNext]_vars

PathInit ==
  /\ PopulatedByFallback /\ fe = FeIdle /\ LookupIdle /\ GitBashIdle /\ ex = [pc |-> "idle"] /\ sh = [pc |-> "idle"]
  \* an environment map around one PATH value: the home variable, then the
  \* PATH-like keys named by keys
  /\ \E home \in (IF isWin THEN {"C:\\Users\\u"} ELSE {"/home/u", " /home/u"}),
        keys \in (IF isWin THEN {<<"Path">>, <<"PATH", "Path">>}
                           ELSE {<<"PATH">>, <<"Path">>, <<>>}),
        path \in UNION { [1..n -> PathSegments] : n \in 1..MaxSegments } :
       pa = [pc |-> "ready", home |-> home, path |-> path,
             env |-> <<Entry(IF isWin THEN "USERPROFILE" ELSE "HOME", Str(home))>>
                       \o [i \in 1..Len(keys) |-> Entry(keys[i], path)]]

PathNext ==
  \/ AppendCherryBin /\ UNCHANGED <<cacheVars, fe, lookupVars, gitBashVars, ex, sh>>
  \/ AppendCherryBinAgain /\ UNCHANGED <<cacheVars, fe, lookupVars, gitBashVars, ex, sh>>
PathSpec == PathInit /\ [][PathNext]_vars

RegistryInit ==
  /\ PopulatedByFallback /\ isWin /\ fe = FeIdle /\ LookupIdle /\ GitBashIdle
  /\ ex = [pc |-> "idle"] /\ sh = [pc |-> "idle"]
  \* the process.env of a Windows host with the inherited PATH under the
  \* PATH-like keys named by keys
  /\ \E keys \in {<<"Path">>, <<"PATH", "Path">>, <<>>} :
       pa = [pc |-> "ready",
             env |-> <<Entry("SystemRoot", Str("C:\\Windows")),
                       Entry("USERPROFILE", Str("C:\\Users\\u"))>>
                       \o [i \in 1..Len(keys) |-> Entry(keys[i], <<"C:\\StaleOldPath">>)]]

\* each query fails (Null) or yields a Path value of up to MaxSegments - 1
\* segments
RegistryNext ==
  \E sys \in {Null} \cup
        UNION { [1..n -> {"C:\\Windows", "C:\\WINDOWS", "C:\\NodeJS", "%SystemRoot%",
                           "%systemroot%", "%UNKNOWN%"}] :
                n \in 1..MaxSegments - 1 },
     usr \in {Null} \cup
        UNION { [1..n -> {"C:\\WINDOWS", "C:\\NodeJS", "%SystemRoot%"}] :
                n \in 1..MaxSegments - 1 } :
    ReadRegistry(sys, usr) /\ UNCHANGED <<cacheVars, fe, lookupVars, gitBashVars, ex, sh>>
RegistrySpec == RegistryInit /\ [][RegistryNext]_vars

ExecInit ==
  /\ PopulatedByFallback /\ fe = FeIdle /\ LookupIdle /\ GitBashIdle
  /\ pa = [pc |-> "idle"] /\ ex = [pc |-> "idle"] /\ sh = [pc |-> "idle"]
ExecNext ==
  \/ \E command \in (IF isWin THEN {WinNpmCmd, WinNpmExe} ELSE {PosixNpm}),
        capture \in BOOLEAN, timeout \in {0, 1000}, hasEnv \in BOOLEAN,
        spawnThrows \in BOOLEAN :
        ExecuteCommand(command, capture, timeout, hasEnv, spawnThrows)
          /\ UNCHANGED <<cacheVars, fe, lookupVars, gitBashVars, pa, sh>>
  \/ \E stream \in {"stdout", "stderr"}, chunk \in {"a", "b"} :
        ExecData(stream, chunk) /\ UNCHANGED <<cacheVars, fe, lookupVars, gitBashVars, pa, sh>>
  \/ ExecTimeout /\ UNCHANGED <<cacheVars, fe, lookupVars, gitBashVars, pa, sh>>
  \/ ExecError /\ UNCHANGED <<cacheVars, fe, lookupVars, gitBashVars, pa, sh>>
  \/ \E code \in {"0", "1", "null", "-2"} :
        ExecClose(code) /\ UNCHANGED <<cacheVars, fe, lookupVars, gitBashVars, pa, sh>>
ExecSpec == ExecInit /\ [][ExecNext]_vars

\* time passes and a due timer runs: the event loop is never blocked while a
\* lookup is awaited
LookupSpec ==
  LookupInit /\ [][LookupNext]_vars
    /\ WF_vars(Tick /\ UNCHANGED <<cacheVars, fe, gitBashVars, pa, ex, sh>>)
    /\ WF_vars(LookupTimeout /\ UNCHANGED <<cacheVars, fe, gitBashVars, pa, ex, sh>>)
    /\ WF_vars(ShellTick /\ UNCHANGED <<cacheVars, fe, lookupVars, gitBashVars, pa, ex>>)
    /\ WF_vars(ShellTimeout /\ UNCHANGED <<cacheVars, fe, lookupVars, gitBashVars, pa, ex>>)

----------------------------------------------------------------------------
(* Claims about the lookups *)

\* the command-name safety pattern, read off character by character:
\* a letter, digit or underscore, then at most 127 letters, digits,
\* underscores or hyphens
MatchesSafetyPattern(name) ==
  /\ Len(name) \in 1..128
  /\ name[1] \notin {"-", ";", "."}
  /\ \A i \in 1..Len(name) : name[i] \notin {";", "."}

Started == fpc # "idle"

\* C5: on POSIX findCommandInShellEnv spawns only for names matching the
\* safety pattern; a name failing it resolves to null with no spawn; the
\* script given to /bin/sh -c is always the constant 'command -v "$1"' and the
\* name is passed only as the positional argument after '--'.
C5_PosixLookupInjectionSafe ==
  (~isWin /\ Started) =>
    /\ ~MatchesSafetyPattern(lookupName) =>
         /\ procLog = <<>>
         /\ found.shell = Null
         /\ fpc \in {"resolved1", "done"}
    /\ \A i \in 1..Len(procLog) :
         /\ MatchesSafetyPattern(lookupName)
         /\ procLog[i].prog = "/bin/sh"
         /\ procLog[i].args = <<<<"-c">>, <<"command -v \"$1\"">>, <<"--">>, lookupName>>

\* a name with a shell metacharacter was turned away without any spawn
C5_Witness ==
  /\ ~isWin
  /\ fpc = "done"
  /\ \E i \in 1..Len(lookupName) : lookupName[i] = ";"
  /\ procLog = <<>>
  /\ result = Null

\* C6: findExecutableInEnv returns null for every name failing the safety
\* pattern, on POSIX and Windows alike, and runs no lookup subprocess (where,
\* where.exe, mise) with such a name.
C6_InvalidNameNeverLookedUp ==
  (Started /\ ~MatchesSafetyPattern(lookupName)) =>
    /\ fpc = "done" => result = Null
    /\ procLog = <<>>

\* C8: findCommandInShellEnv always resolves: while it is pending its timer
\* is armed for 5000 ms after the spawn and the clock has not passed it; when
\* the timer runs with neither 'close' nor 'error' seen, the child is killed
\* with SIGKILL and the call resolves to null in that step; and a pending
\* lookup is eventually resolved, on either platform.
C8_LookupTimeoutResolves ==
  /\ [](fpc = "await1" =>
          /\ timer = [state |-> "armed", deadline |-> 5000]
          /\ now <= 5000
          /\ ~resolved)
  /\ [][(timer.state = "armed" /\ timer'.state = "fired") =>
          /\ now = 5000
          /\ child'.signal = "SIGKILL"
          /\ resolved'
          /\ found'.shell = Null
          /\ fpc' = "resolved1"]_lookupVars
  /\ (fpc = "await1") ~> (fpc # "await1")

\* the lookup timed out: the child was killed and the call resolved to null
C8_Witness ==
  /\ timer.state = "fired"
  /\ child = [state |-> "running", signal |-> "SIGKILL"]
  /\ now = 5000
  /\ resolved
  /\ found.shell = Null

\* C9: every synchronous subprocess call carries an explicit timeout, so
\* findExecutableInEnv returns even when the external program hangs.
C9_SyncCallsBounded ==
  /\ \A i \in 1..Len(procLog) : procLog[i].sync => procLog[i].timeout > 0
  /\ fpc # "blocked"

IsPrefix(seq, of) == Len(seq) <= Len(of) /\ seq = SubSeq(of, 1, Len(seq))

\* C10: the strategies of one findExecutableInEnv call run one after another:
\* findExecutable only after findCommandInShellEnv resolved null, findViaMise
\* only after findExecutable returned null; the first non-null result is
\* returned and no later strategy is started; on POSIX only the first runs.
C10_StrategiesSequential ==
  /\ IsPrefix(strategies, <<"findCommandInShellEnv", "findExecutable", "findViaMise">>)
  /\ Len(strategies) >= 2 => isWin /\ found.shell = Null /\ fpc # "await1"
  /\ Len(strategies) >= 3 => found.win = Null
  /\ fpc = "await1" => strategies = <<"findCommandInShellEnv">>
  /\ fpc = "done" =>
       /\ found.shell # Null => result = found.shell /\ Len(strategies) = 1
       /\ (found.shell = Null /\ found.win # Null) =>
            result = found.win /\ Len(strategies) = 2
       /\ (found.shell = Null /\ found.win = Null) => result = found.mise
       /\ ~isWin => strategies = <<"findCommandInShellEnv">>

\* where.exe found the tool after the shell lookup had resolved null, and mise
\* was never asked
C10_Witness ==
  /\ isWin
  /\ fpc = "done"
  /\ strategies = <<"findCommandInShellEnv", "findExecutable">>
  /\ found.shell = Null
  /\ result = WinNpmCmd
  /\ Len(procLog) = 2

\* C26: a non-null result of findCommandInShellEnv is an absolute path on
\* POSIX (a bare name printed for an alias or builtin gives null) and ends in
\* .exe, letter case aside, on Windows (only .cmd/.bat matches give null).
C26_ShellLookupResultShape ==
  found.shell # Null =>
    IF isWin THEN found.shell[Len(found.shell)] \in {"npm.exe", "npm.EXE", "npm.Exe"}
             ELSE found.shell[1] = "/"

\* `where` listed npm.cmd before npm.EXE and the lookup resolved to the latter
C26_Witness ==
  /\ isWin
  /\ child.state = "exited"
  /\ resolved
  /\ found.shell = WinNpmExe

\* C35: during a findCommandInShellEnv lookup the accumulated captured stdout
\* never exceeds 10240 characters, however much output the child writes and
\* in whatever chunk sizes it arrives.
C35_OutputCapped == output <= 10240

\* C37: findViaMise returns non-null only when the name passes the safety
\* pattern, the first where.exe result for mise ends in .exe, and the first
\* line printed by `mise which <name>` is an absolute path that exists on
\* disk; in every other case, a mise timeout or failure included, it returns
\* null, and mise is never run for an invalid name.
C37_MiseOnlyAbsoluteExisting ==
  (fpc = "done" /\ strategies[Len(strategies)] = "findViaMise") =>
    LET accepted ==
          /\ MatchesSafetyPattern(lookupName)
          /\ found.via # <<>>
          /\ found.via[1].kind = "ok"
          /\ found.via[1].lines # <<>>
          /\ found.via[1].lines[1][Len(found.via[1].lines[1])] \in {"mise.exe", "mise.EXE"}
          /\ found.via[2].kind = "ok"
          /\ found.via[2].lines # <<>>
          /\ Len(found.via[2].lines[1]) >= 2
          /\ found.via[2].lines[1][2] = Sep
          /\ found.via[3]
    IN /\ result = found.mise
       /\ found.mise = IF accepted THEN found.via[2].lines[1] ELSE Null
       /\ ~MatchesSafetyPattern(lookupName) =>
            \A i \in 1..Len(procLog) : procLog[i].prog # "mise.exe"

\* mise.exe was found and printed the absolute, existing path of npm.EXE
C37_Witness ==
  /\ fpc = "done"
  /\ lookupName = NpmName
  /\ strategies = <<"findCommandInShellEnv", "findExecutable", "findViaMise">>
  /\ found.via[1].lines = <<MiseExe>>
  /\ found.via[3]
  /\ found.mise = WinNpmExe
  /\ result = WinNpmExe

\* C11: findCommandInShellEnv, findExecutable, findViaMise and
\* findExecutableInEnv never throw or reject: every failure, a spawn failure
\* raised synchronously by spawn included, yields null.
C11_LookupsNeverReject ==
  fpc # "rejected"

----------------------------------------------------------------------------
(* Claims about Git Bash *)

\* a path that exists on disk and whose name ends with bash.exe, case ignored
PassesValidation(path, files) ==
  /\ path # Null
  /\ ExistsSync(PathResolve(path), files)
  /\ EndsWithBashExe(ToLowerCase(PathResolve(path)))

\* a file literally named bash.exe, case ignored
NamedBashExe(path) ==
  path # Null /\ LowerToken(path[Len(path)]) = "bash.exe"

GbDone(fn) == gbCall.pc = "done" /\ gbCall.fn = fn

\* C12: when the override variable holds a path that passes validation, every
\* Git Bash resolution (autoDiscoverGitBash, findGitBash with a custom path,
\* getGitBashPathInfo) yields the override path, whatever is persisted or
\* passed as custom path.
C12_OverrideAlwaysWins ==
  (/\ gbCall.pc = "done"
   /\ PassesValidation(gbOverride, gbFiles)
   /\ gbCall.fn = "findGitBash" => gbCall.custom # Null)
    => gbCall.path = PathResolve(gbOverride)

\* C13: validateGitBashPath accepts a path only if it exists on disk and is a
\* file literally named bash.exe (case ignored); any other path, such as an
\* existing notbash.exe, is treated as absent.
C13_OnlyBashExeValidates ==
  (GbDone("findGitBash") /\ gbCall.custom # Null) =>
    (gbCall.by = "custom" <=>
       ExistsSync(PathResolve(gbCall.custom), gbFiles) /\ NamedBashExe(gbCall.custom))

\* C14: every non-null path returned by findGitBash, autoDiscoverGitBash or
\* getGitBashPathInfo exists on disk and ends with bash.exe at the time of
\* the call; a persisted path that no longer validates is never returned.
C14_ReturnedPathValidates ==
  (gbCall.pc = "done" /\ gbCall.path # Null) => PassesValidation(gbCall.path, gbFiles)

PersistedReused ==
  /\ GbDone("autoDiscoverGitBash")
  /\ ~PassesValidation(gbOverride, gbFiles)
  /\ PassesValidation(gbCall.before.path, gbFiles)

\* C15 as stated: with no valid override and a persisted GitBashPath that
\* validates, autoDiscoverGitBash returns that very path, runs no discovery
\* and writes nothing.
C15_ReturnsPersistedVerbatim ==
  PersistedReused =>
    /\ gbCall.path = gbCall.before.path
    /\ gbCall.by = "config"
    /\ gbConfig = gbCall.before

\* C15, amended: with no valid override and a persisted GitBashPath that
\* validates, autoDiscoverGitBash returns the path.resolve()d form of the
\* persisted path (the persisted string itself when that is already absolute
\* and normalised), runs no discovery (no git.exe lookup, no where.exe, no
\* layout probing) and writes neither GitBashPath nor GitBashPathSource.
C15_ReturnsPersistedResolved ==
  PersistedReused =>
    /\ gbCall.path = PathResolve(gbCall.before.path)
    /\ gbCall.by = "config"
    /\ gbConfig = gbCall.before

\* the persisted D:\custom\.\bash.exe was reused, as D:\custom\bash.exe
C15_Witness ==
  /\ PersistedReused
  /\ gbCall.before.path = GitBashPaths.dotted
  /\ gbCall.path = GitBashPaths.custom
  /\ gbConfig = gbCall.before

\* C16: autoDiscoverGitBash writes configuration only when auto-discovery ran
\* and found a path: GitBashPath becomes the discovered path and
\* GitBashPathSource 'auto'; when discovery finds nothing or the result came
\* from the override variable both keys keep their values.
C16_PersistsOnlyDiscovered ==
  GbDone("autoDiscoverGitBash") =>
    /\ gbConfig # gbCall.before => gbCall.by = "discovery" /\ gbCall.path # Null
    /\ (gbCall.by = "discovery" /\ gbCall.path # Null) =>
         gbConfig = [path |-> gbCall.path, source |-> "auto"]
    /\ (gbCall.path = Null \/ gbCall.by = "override") => gbConfig = gbCall.before
    /\ gbCall.by = "discovery" =>
         ~PassesValidation(gbOverride, gbFiles) /\ ~PassesValidation(gbCall.before.path, gbFiles)

\* discovery found the portable layout and replaced a persisted path that no
\* longer validated
C16_Witness ==
  /\ GbDone("autoDiscoverGitBash")
  /\ gbCall.by = "discovery"
  /\ gbCall.path = GitBashPaths.portable
  /\ gbCall.before = [path |-> GitBashPaths.notBash, source |-> "manual"]
  /\ gbConfig = [path |-> GitBashPaths.portable, source |-> "auto"]

----------------------------------------------------------------------------
(* Claims about appendCherryBinToPath and the registry PATH *)

\* C40: the source returned by getGitBashPathInfo names the origin of the
\* returned path: 'auto' is reported only for a path found by auto-discovery
\* and persisted in the configuration, never for a path taken from the
\* override environment variable, and a null path always comes with a null
\* source.
C40_SourceNamesOrigin ==
  (gbCall.fn = "getGitBashPathInfo" /\ gbCall.pc = "done") =>
    /\ gbCall.source = "auto" =>
         /\ gbCall.by # "override"
         /\ gbConfig = [path |-> gbCall.path, source |-> "auto"]
    /\ gbCall.path = Null => gbCall.source = "none"

\* the value of the first PATH-like key of a map
PathValue(env) == Get(env, PathKeys(env)[1])

\* the PATH the call starts from, segment by segment and trimmed
ExistingSegments ==
  IF PathKeys(pa.env) = <<>> THEN <<"">> ELSE [i \in 1..Len(pa.path) |-> Trim(pa.path[i])]

ToolBin == CherryBinOf(pa.home, isWin)

\* a directory name without its trailing separator and, on Windows, without
\* regard to letter case
Canonical(seg) ==
  CASE seg = "/home/u/.cherrystudio/bin/" -> "/home/u/.cherrystudio/bin"
    [] seg = "C:\\Users\\u\\.cherrystudio\\bin\\" -> "c:\\users\\u\\.cherrystudio\\bin"
    [] OTHER -> normaliseSegment(seg, isWin)

RECURSIVE IsSubsequence(_, _)
IsSubsequence(a, b) ==
  IF a = <<>> THEN TRUE
  ELSE IF b = <<>> THEN FALSE
  ELSE IF Head(a) = Head(b) THEN IsSubsequence(Tail(a), Tail(b))
  ELSE IsSubsequence(a, Tail(b))

\* C17: appendCherryBinToPath is idempotent: applied twice to any environment
\* map it yields, for every PATH-like key, the value it yields applied once.
C17_AppendIdempotent ==
  pa.pc = "twice" =>
    \A i \in 1..Len(pa.twice) :
      IsPathKey(pa.twice[i].k) => pa.twice[i].v = Get(pa.once, pa.twice[i].k)

\* C18: appendCherryBinToPath adds no new segment when PATH already holds a
\* segment equal to <home>/.cherrystudio/bin after normalisation, in
\* particular one differing only by a trailing separator or (Windows) only by
\* letter case.
C18_NoDuplicateOfToolBin ==
  (/\ pa.pc = "once"
   /\ \E i \in 1..Len(ExistingSegments) : Canonical(ExistingSegments[i]) = Canonical(ToolBin))
    => IsSubsequence(PathValue(pa.once), ExistingSegments)

\* C19 as stated: the existing segments keep their relative order and the
\* tool-bin directory is the last segment of the resulting PATH.
C19_ToolBinAlwaysLast ==
  pa.pc = "once" =>
    LET out == PathValue(pa.once)
    IN /\ out[Len(out)] = ToolBin
       /\ IsSubsequence(SubSeq(out, 1, Len(out) - 1), ExistingSegments)

AlreadyPresent ==
  \E i \in 1..Len(ExistingSegments) :
    /\ ExistingSegments[i] # ""
    /\ normaliseSegment(ExistingSegments[i], isWin) = normaliseSegment(ToolBin, isWin)

\* C19, amended: the resulting PATH holds the existing segments (trimmed, the
\* empty ones and those equal to an earlier one after normalisation dropped)
\* in their original relative order; the tool-bin directory is appended as the
\* last segment unless an existing segment equals it after normalisation, in
\* which case nothing is appended and the directory stays where it stood.
C19_OrderKeptBinLastWhenNew ==
  pa.pc = "once" =>
    LET out == PathValue(pa.once)
    IN /\ IF AlreadyPresent
            THEN IsSubsequence(out, ExistingSegments)
            ELSE /\ out[Len(out)] = ToolBin
                 /\ IsSubsequence(SubSeq(out, 1, Len(out) - 1), ExistingSegments)
       /\ \A i \in 1..Len(ExistingSegments) :
            ExistingSegments[i] # "" =>
              \E j \in 1..Len(out) :
                normaliseSegment(out[j], isWin) = normaliseSegment(ExistingSegments[i], isWin)

\* the bin directory stood first in PATH and stays first; nothing is appended
C19_Witness ==
  /\ pa.pc = "once"
  /\ pa.home = "/home/u"
  /\ pa.path = <<"/home/u/.cherrystudio/bin", " /opt/bin", "/usr/bin">>
  /\ PathValue(pa.once) = <<"/home/u/.cherrystudio/bin", "/opt/bin", "/usr/bin">>

BothReadsSucceeded == pa.pc = "registry" /\ Truthy(pa.sys) /\ Truthy(pa.usr)

\* a segment of the result that the expanded registry value holds
ContributedBy(seg, value) ==
  \E k \in 1..Len(expandWindowsEnvVars(value, pa.env)) :
    normaliseSegment(expandWindowsEnvVars(value, pa.env)[k], TRUE) = normaliseSegment(seg, TRUE)

\* C20: when the machine-scope and the user-scope registry read both succeed,
\* every system segment of the resulting Path comes before every segment
\* contributed only by the user value, and no segment of either is lost.
C20_SystemBeforeUser ==
  BothReadsSucceeded =>
    LET out == PathValue(pa.once)
    IN /\ \A i, j \in 1..Len(out) :
            (ContributedBy(out[j], pa.sys) /\ ContributedBy(out[i], pa.usr)
               /\ ~ContributedBy(out[i], pa.sys)) => j < i
       /\ \A k \in 1..Len(pa.sys) : \E j \in 1..Len(out) : ContributedBy(out[j], <<pa.sys[k]>>)
       /\ \A k \in 1..Len(pa.usr) : \E j \in 1..Len(out) : ContributedBy(out[j], <<pa.usr[k]>>)

\* system %SystemRoot% and user C:\WINDOWS;C:\NodeJS: the user's duplicate of
\* the system directory is dropped, its own directory follows
C20_Witness ==
  /\ BothReadsSucceeded
  /\ pa.sys = <<"%SystemRoot%">>
  /\ pa.usr = <<"C:\\WINDOWS", "C:\\NodeJS">>
  /\ PathValue(pa.once) = <<"C:\\Windows", "C:\\NodeJS", "C:\\Users\\u\\.cherrystudio\\bin">>

\* a where.exe line whose file name ends in .exe or .cmd in any letter case
\* and which the working-directory check of findExecutable lets through
Qualifies(line) ==
  /\ line[Len(line)] \in {"npm.exe", "npm.EXE", "npm.cmd", "npm.CMD"}
  /\ ~InCurrentDir(line, fe.cwd)

\* C36: for a generic lookup findExecutable returns the first path, in
\* where.exe output order, whose extension is in the allow-list (.exe and
\* .cmd by default, compared case-insensitively) and which passes the
\* working-directory check; a path with any other extension, an extensionless
\* one included, is never returned, and the result is null when no line
\* qualifies.
C36_FirstAllowedExtension ==
  (fe.pc = "done" /\ fe.name = NpmName) =>
    LET q == {i \in 1..Len(fe.lines) : Qualifies(fe.lines[i])}
    IN IF q = {} THEN fe.result = Null
       ELSE fe.result = fe.lines[CHOOSE i \in q : \A j \in q : i <= j]

\* where.exe listed the extensionless npm first; the .CMD after it is returned
C36_Witness ==
  /\ fe.pc = "done" /\ fe.name = NpmName
  /\ fe.cwd = <<"D:", Sep, "work">>
  /\ fe.lines = <<<<"D:", Sep, "bin", Sep, "npm">>, <<"C:", Sep, "Proj", Sep, "npm.CMD">>>>
  /\ fe.result = <<"C:", Sep, "Proj", Sep, "npm.CMD">>

\* C31: on POSIX PATH-like keys are matched case-sensitively:
\* appendCherryBinToPath takes the existing PATH from, and writes the result
\* to, the key PATH only; a variable spelled Path or path is left unchanged
\* and its value is never used as the PATH.
C31_PosixOnlyPathKey ==
  (~isWin /\ pa.pc = "once") =>
    /\ \A k \in {"Path", "path"} : Get(pa.once, k) = Get(pa.env, k)
    /\ ~HasKey(pa.env, "PATH") => Get(pa.once, "PATH") = <<ToolBin>>

\* the two registry values as readWindowsRegistryPath combines them, before
\* any expansion
CombinedRegistryValue ==
  (IF Truthy(pa.sys) THEN pa.sys ELSE <<>>) \o (IF Truthy(pa.usr) THEN pa.usr ELSE <<>>)

\* the host variable a piece refers to when it is a %VAR% token whose name
\* equals, letter case aside, the name of a variable of the host; "" otherwise
HostVariableOf(piece) ==
  IF piece \in {"%SystemRoot%", "%systemroot%"} /\ HasKey(pa.env, "SystemRoot")
    THEN "SystemRoot" ELSE ""

\* C22: in the registry-derived PATH every %VAR% token whose name matches,
\* case-insensitively, a variable of the host environment is replaced by that
\* variable's value; a token with no matching variable is left verbatim.
C22_TokensExpanded ==
  (pa.pc = "registry" /\ CombinedRegistryValue # <<>>) =>
    /\ Len(pa.reg) = Len(CombinedRegistryValue)
    /\ \A i \in 1..Len(CombinedRegistryValue) :
         pa.reg[i] = IF HostVariableOf(CombinedRegistryValue[i]) # ""
                       THEN Get(pa.env, HostVariableOf(CombinedRegistryValue[i]))[1]
                       ELSE CombinedRegistryValue[i]

\* a token written in another letter case than the host's variable is
\* expanded, the token of an unknown variable stays
C22_Witness ==
  /\ pa.pc = "registry"
  /\ pa.sys = <<"%systemroot%", "%UNKNOWN%">>
  /\ pa.usr = <<"%SystemRoot%">>
  /\ pa.reg = <<"C:\\Windows", "%UNKNOWN%", "C:\\Windows">>

\* C24: when at least one registry read succeeds, every PATH-like key of the
\* host environment keeps its casing and all of them end with the same
\* registry-derived value (a single Path key is created only when none
\* existed), so no inherited segment absent from the registry value survives.
C24_RegistryReplacesEveryPathKey ==
  (pa.pc = "registry" /\ (Truthy(pa.sys) \/ Truthy(pa.usr))) =>
    LET before == PathKeys(pa.env)
        after == PathKeys(pa.once)
    IN /\ after = IF before = <<>> THEN <<"Path">> ELSE before
       /\ \A i \in 1..Len(after) : Get(pa.once, after[i]) = PathValue(pa.once)
       /\ \A j \in 1..Len(PathValue(pa.once)) :
            \/ ContributedBy(PathValue(pa.once)[j], CombinedRegistryValue)
            \/ PathValue(pa.once)[j] = "C:\\Users\\u\\.cherrystudio\\bin"

\* a host with the keys PATH and Path, only the user read succeeding: both
\* keys hold the registry value and the bin directory, the stale segment is gone
C24_Witness ==
  /\ pa.pc = "registry"
  /\ PathKeys(pa.env) = <<"PATH", "Path">>
  /\ pa.sys = Null /\ pa.usr = <<"C:\\NodeJS">>
  /\ Get(pa.env, "PATH") = <<"C:\\StaleOldPath">>
  /\ Get(pa.once, "PATH") = <<"C:\\NodeJS", "C:\\Users\\u\\.cherrystudio\\bin">>
  /\ Get(pa.once, "Path") = Get(pa.once, "PATH")

----------------------------------------------------------------------------
(* Claims about executeCommand *)

TimedOut == [state |-> "rejected", kind |-> "timed out", text |-> <<>>]

\* C27: for an executeCommand call with a timeout, if the child has neither
\* closed nor errored when the timer fires, the child is killed and the
\* promise rejects with the timeout error, and a later 'close' does not change
\* that outcome; if 'close' or 'error' comes first the timer is cleared and
\* never fires: no timer is pending after a terminal event.
C27_TimeoutRace ==
  (ex.pc = "spawned" /\ ex.timeout # 0 /\ ex.events # <<>>) =>
    /\ ex.timer # "armed"
    /\ ex.events[1] = "timeout" =>
         /\ ex.timer = "fired"
         /\ ex.child.signal = "SIGKILL"
         /\ ex.promise = TimedOut
    /\ ex.events[1] \in {"close", "error"} =>
         /\ ex.timer = "cleared"
         /\ \A i \in 1..Len(ex.events) : ex.events[i] # "timeout"
         /\ ex.child.signal = ""
         /\ ex.promise.state # "pending" /\ ex.promise # TimedOut

\* the timer fired first, the killed child closed afterwards
C27_Witness ==
  /\ ex.pc = "spawned"
  /\ ex.events = <<"timeout", "close">>
  /\ ex.code = "null"
  /\ ex.child = [state |-> "closed", signal |-> "SIGKILL"]
  /\ ex.promise = TimedOut

\* C28: executeCommand resolves only on exit code 0, with the accumulated
\* stdout when capture is true and '' otherwise, and rejects on every non-zero
\* exit code with the captured stderr (the generic 'failed with code' message
\* when stderr is empty) and on a spawn error.
C28_ResolvesOnlyOnZero ==
  /\ ex.pc = "threw" => ex.promise.state = "rejected" /\ ex.promise.kind = "spawn"
  /\ ex.pc = "spawned" =>
       /\ ex.promise.state = "resolved" =>
            /\ ex.events[1] = "close" /\ ex.code = "0"
            /\ ex.promise.text = IF ex.capture THEN ex.stdout ELSE <<>>
       /\ (ex.events # <<>> /\ ex.events[1] = "close") =>
            IF ex.code = "0" THEN ex.promise.state = "resolved"
            ELSE /\ ex.promise.state = "rejected"
                 /\ IF ex.stderr # <<>>
                      THEN ex.promise.kind = "stderr" /\ ex.promise.text = ex.stderr
                      ELSE ex.promise.kind = "failed with code"
                             /\ ex.promise.text = <<ex.code>>
       /\ (ex.events # <<>> /\ ex.events[1] = "error") =>
            ex.promise.state = "rejected" /\ ex.promise.kind = "spawn"

\* exit code 0 without capture: output was received, '' is the result
C28_Witness ==
  /\ ex.pc = "spawned"
  /\ ~ex.capture
  /\ ex.stdout = <<"a", "b">>
  /\ ex.events = <<"close">> /\ ex.code = "0"
  /\ ex.promise = [state |-> "resolved", kind |-> "stdout", text |-> <<>>]

----------------------------------------------------------------------------
(* Claims about the login-shell probe *)

\* C38: the login-shell probe fails on every non-zero exit code and on a
\* spawn error, and succeeds on exit code 0 even when the shell wrote to
\* stderr
C38_FailsOnlyOnCodeOrError ==
  (sh.pc = "called" /\ sh.events # <<>>) =>
    /\ sh.events[1] = "error" => sh.outcome.status = "rejected"
    /\ sh.events[1] = "close" =>
         /\ sh.code = "0" => sh.outcome.status = "resolved"
         /\ sh.code # "0" => sh.outcome.status = "rejected"

C38_Witness ==
  /\ sh.pc = "called"
  /\ sh.events = <<"close">>
  /\ sh.code = "0"
  /\ sh.errorOutput
  /\ sh.outcome.status = "resolved"

\* what each line of the sampled output contributes when it is read after
\* trimming its leading and trailing whitespace
TrimmedEntry(line) ==
  CASE line = <<"PATH", "=", "/usr/bin">> -> <<Entry("PATH", Str("/usr/bin"))>>
    [] line = <<"HOME", "=", "/home/u">> -> <<Entry("HOME", Str("/home/u"))>>
    [] line = <<"A", "=", "b", "=", "c">> -> <<Entry("A", Str("b=c"))>>
    [] line = <<"A", "=", "z">> -> <<Entry("A", Str("z"))>>
    [] line = <<" ", "A", "=", "z", " ">> -> <<Entry("A", Str("z"))>>
    [] OTHER -> <<>>

\* what each line contributes when it is read exactly as printed
PrintedEntry(line) ==
  CASE line = <<" ", "A", "=", "z", " ">> -> <<Entry(" A", Str("z "))>>
    [] OTHER -> TrimmedEntry(line)

\* the last value each key was given, line after line
RECURSIVE LastWins(_, _, _)
LastWins(lines, printed, key) ==
  IF lines = <<>> THEN Null
  ELSE LET line == lines[Len(lines)]
           entry == IF printed THEN PrintedEntry(line) ELSE TrimmedEntry(line)
       IN IF entry # <<>> /\ entry[1].k = key THEN entry[1].v
          ELSE LastWins(SubSeq(lines, 1, Len(lines) - 1), printed, key)

SampledKeys == {"PATH", "HOME", "A", " A", "", "noequals", "x"}

Succeeded == sh.pc = "called" /\ sh.outcome.status = "resolved"

\* C39 (as amended): on a successful probe each stdout line, trimmed of
\* leading and trailing whitespace, with '=' at index >= 1 yields the entry
\* whose key is the text before the first '=' and whose value is all text
\* after it; a line without '=' or beginning with '=' yields none; a later
\* line with the same key overrides an earlier one
C39_TrimmedLinesParsed ==
  Succeeded =>
    /\ \A k \in SampledKeys : Get(sh.parsed, k) = LastWins(sh.lines, FALSE, k)
    /\ \A i \in 1..Len(sh.parsed) : sh.parsed[i].k \in SampledKeys

\* C39 (as stated): the same, each line read as printed
C39_LinesParsedAsPrinted ==
  Succeeded =>
    /\ \A k \in SampledKeys : Get(sh.parsed, k) = LastWins(sh.lines, TRUE, k)
    /\ \A i \in 1..Len(sh.parsed) : sh.parsed[i].k \in SampledKeys

C39_Witness ==
  /\ Succeeded
  /\ sh.lines = << <<"A", "=", "z">>, <<"A", "=", "b", "=", "c">> >>
  /\ Get(sh.parsed, "A") = Str("b=c")

\* C33: the promise of each child-process operation settles exactly once,
\* with the outcome of whichever of timeout, 'error' and 'close' happens
\* first; later events do not change the result, and the timer is cancelled
\* when the promise settles through 'close' or 'error'
C33_SettlesOnceWithFirstEvent ==
  /\ [](child.signal = "SIGKILL" => resolved /\ found.shell = Null)
  /\ [](child.state \in {"exited", "failed"} => resolved /\ timer.state # "armed")
  /\ [][resolved => resolved' /\ found'.shell = found.shell]_lookupVars
  /\ []((sh.pc = "called" /\ sh.events # <<>>) =>
          /\ sh.settled
          /\ sh.events[1] = "timeout" => sh.outcome.why = "timeout"
          /\ sh.events[1] = "error" => sh.outcome.why = "error"
          /\ sh.events[1] = "close" => sh.outcome.why \in {"close", "code"}
          /\ sh.events[1] \in {"close", "error"} => sh.timer.state = "cleared")
  /\ [][(sh.pc = "called" /\ sh.settled) =>
          sh'.settled /\ sh'.outcome = sh.outcome /\ sh'.fetch = sh.fetch]_sh

C33_Witness ==
  /\ sh.pc = "called"
  /\ sh.events = <<"timeout", "close">>
  /\ sh.code = "0"
  /\ sh.outcome.why = "timeout"

\* C34: when the login shell has not closed within 15000 ms the probe kills
\* the child and rejects, so the caller gets the fallback environment; a
\* started probe never leaves its caller waiting
C34_TimeoutEndsTheProbe ==
  /\ []((sh.pc = "called" /\ sh.timer.state = "fired") =>
          /\ sh.now = SHELL_ENV_TIMEOUT_MS
          /\ sh.child.signal = "SIGTERM"
          /\ sh.outcome.status = "rejected"
          /\ sh.fetch = [status |-> "resolved", env |-> FallbackEnv(1)])
  /\ ((sh.pc = "called" /\ sh.child.state = "running")
        ~> (sh.pc = "called" /\ sh.fetch.status = "resolved"))

C34_Witness ==
  /\ sh.pc = "called"
  /\ sh.events = <<"timeout">>
  /\ sh.child.state = "running"
  /\ sh.fetch.status = "resolved"
  /\ sh.fetch.env.src = "fallback"

====
